---- MODULE Spec2Model ----
(***************************************************************************)
(* AirGong: the schedule engine (lib/ApplicationControl) together with the *)
(* time adapter's request handler (lib/TimeSync) and the persisted store   *)
(* (Preferences / NVS) the engine saves its schedules to.                  *)
(*                                                                         *)
(* One action models one entry point of the engine: a message delivered to *)
(* prv_message_handler, a call of appcontrol_run, or a restart of the      *)
(* device (appcontrol_init).  Every action runs the whole handler,         *)
(* including the save to flash and the messages it publishes.              *)
(***************************************************************************)
EXTENDS Integers, Sequences, FiniteSets

\* ------------------------------------------------------------------------
\* Program constants
\* ------------------------------------------------------------------------
MAX_SCHEDULES == 20

\* capacity of msg_schedule_list_t.schedules and the literal of the List loop
LIST_CAPACITY == 20

\* "invalid value to force initial check" of last_checked_min
UNSET_MIN == 255

\* ------------------------------------------------------------------------
\* Bounds of the model
\* ------------------------------------------------------------------------
\* last calendar day the wall clock reaches
MaxDay == 1

\* number of Add requests delivered in one behaviour
MaxAdds == 1

\* ------------------------------------------------------------------------
\* Input domains
\* ------------------------------------------------------------------------
Slots == 0 .. (MAX_SCHEDULES - 1)

\* readings of the wall clock (struct tm, reduced to the fields that matter)
Times == [day : 0 .. MaxDay, hour : {7}, min : {30, 31}]

BootTime == [day |-> 0, hour |-> 7, min |-> 30]

\* the clock of a device that is observed within one calendar minute
BootTimes == {BootTime}

Stamp(t) == (t.day * 24 + t.hour) * 60 + t.min


\* payloads of msg_schedule_add_t delivered on the bus
AddInputs ==
    { [hour |-> 7, minute |-> 30, song_index |-> 5],
      [hour |-> 8, minute |-> 31, song_index |-> 9] }

\* payloads of msg_schedule_remove_t delivered on the bus
RemoveIds == {0, MAX_SCHEDULES}

EdgeRemoveIds == {-1, 0, MAX_SCHEDULES - 1, MAX_SCHEDULES}

\* the indexes in front of the array a stored original_id can name
StrayIndexes == {-1}

\* ------------------------------------------------------------------------
\* schedule_entry_t and the schedule array
\* ------------------------------------------------------------------------
InitEntry ==
    [active |-> FALSE, hour |-> 0, minute |-> 0, song_index |-> 0,
     triggered |-> FALSE, last_checked_min |-> UNSET_MIN]

InitSchedules == [i \in Slots |-> InitEntry]

ArmedEntry(hour, minute, song_index) ==
    [active |-> TRUE, hour |-> hour, minute |-> minute, song_index |-> song_index,
     triggered |-> FALSE, last_checked_min |-> UNSET_MIN]

ActiveSlots(s) == {i \in Slots : s[i].active}

RECURSIVE FindUntriggeredSlotFrom(_, _)
FindUntriggeredSlotFrom(s, i) ==
    IF i >= MAX_SCHEDULES THEN -1
    ELSE IF ~s[i].triggered THEN i
    ELSE FindUntriggeredSlotFrom(s, i + 1)

\* the linear scan for the first free slot; -1 when every slot is active
RECURSIVE FindFreeSlotFrom(_, _)
FindFreeSlotFrom(s, i) ==
    IF i >= MAX_SCHEDULES THEN -1
    ELSE IF ~s[i].active THEN i
    ELSE FindFreeSlotFrom(s, i + 1)

RECURSIVE FindLastFreeSlotFrom(_, _)
FindLastFreeSlotFrom(s, i) ==
    IF i < 0 THEN -1
    ELSE IF ~s[i].active THEN i
    ELSE FindLastFreeSlotFrom(s, i - 1)

FindLastFreeSlot(s) == FindLastFreeSlotFrom(s, MAX_SCHEDULES - 1)

FindFreeSlot(s) == FindFreeSlotFrom(s, 0)

\* ------------------------------------------------------------------------
\* The persisted store: namespace "appcontrol" of Preferences
\*   cnt     key "sched_cnt": whether it is present, and its value
\*   recs    keys "sched_<k>": the stored bytes, len = 0 when the key is absent
\* ------------------------------------------------------------------------
\* sizeof(storage_data): u8 + u8 + u16 + int
RECORD_SIZE == 8

Ordinals == 0 .. (MAX_SCHEDULES - 1)

NoRecord == [len |-> 0, hour |-> 0, minute |-> 0, song_index |-> 0, original_id |-> 0]

\* recs maps the ordinals of the record keys that are present to their bytes
EmptyStore == [cnt |-> [present |-> FALSE, value |-> 0], recs |-> <<>>]

\* getBytes: the stored bytes, nothing (len = 0) when the key is absent
GetBytes(store, k) == IF k \in DOMAIN store.recs THEN store.recs[k] ELSE NoRecord

\* a record that does not carry the slot it was saved from
StorageRecordWithoutSlot(e, i) ==
    [len |-> RECORD_SIZE, hour |-> e.hour, minute |-> e.minute,
     song_index |-> e.song_index, original_id |-> 0]

\* storage_data of the save: the durable fields and the array position
StorageRecord(e, i) ==
    [len |-> RECORD_SIZE, hour |-> e.hour, minute |-> e.minute,
     song_index |-> e.song_index, original_id |-> i]

RECURSIVE CountActiveFrom(_, _)
CountActiveFrom(s, i) ==
    IF i >= MAX_SCHEDULES THEN 0
    ELSE (IF s[i].active THEN 1 ELSE 0) + CountActiveFrom(s, i + 1)

ActiveCount(s) == CountActiveFrom(s, 0)

\* the slots the save loops find active, in the order they are visited
RECURSIVE ActiveFrom(_, _)
ActiveFrom(s, i) ==
    IF i >= MAX_SCHEDULES THEN <<>>
    ELSE IF s[i].active THEN <<i>> \o ActiveFrom(s, i + 1)
    ELSE ActiveFrom(s, i + 1)

\* the second loop of the save: one putBytes per active slot, the k-th active
\* slot under save_index k; the keys beyond keep their bytes
SaveRecords(s, recs) ==
    LET saved == ActiveFrom(s, 0)
    IN  [k \in DOMAIN recs \cup {j \in Ordinals : j < Len(saved)} |->
            IF k < Len(saved) THEN StorageRecord(s[saved[k + 1]], saved[k + 1])
            ELSE recs[k]]

\* the first loop of the save counts the active slots; putInt writes the count
prv_save_schedules_to_flash(s, store) ==
    [cnt |-> [present |-> TRUE, value |-> ActiveCount(s)],
     recs |-> SaveRecords(s, store.recs)]

\* the keys one action writes: whether putInt wrote the count key, and the
\* ordinals of the record keys putBytes wrote
NoWrites == [count_key |-> FALSE, record_keys |-> {}]

SaveWrites(s) ==
    LET active_count == ActiveCount(s)
    IN  [count_key |-> TRUE, record_keys |-> {k \in Ordinals : k < active_count}]

\* a count taken from the record keys that are present
GetCountOfRecords(store) == Cardinality(DOMAIN store.recs)

\* getInt(NVS_KEY_SCHEDULE_COUNT, 0): an absent key reads as the default 0
GetCount(store) == IF store.cnt.present THEN store.cnt.value ELSE 0

\* schedules[target_slot].active as the load reads it.  The load tests the
\* index against MAX_SCHEDULES only: a negative index reads memory in front
\* of the array, and stray is the set of such indexes whose byte reads as
\* true
ReadActive(s, target_slot, stray) ==
    IF target_slot \in Slots THEN s[target_slot].active ELSE target_slot \in stray

\* where one record read on load is restored: its original slot, or the
\* first free slot; -1 when no slot is free
TargetSlot(s, rec, stray) ==
    IF rec.original_id >= MAX_SCHEDULES \/ ReadActive(s, rec.original_id, stray)
    THEN FindFreeSlot(s)
    ELSE rec.original_id

RestoreRecord(s, rec, stray) ==
    IF TargetSlot(s, rec, stray) >= 0
    THEN [s EXCEPT ![TargetSlot(s, rec, stray)] =
                      ArmedEntry(rec.hour, rec.minute, rec.song_index)]
    ELSE s

\* a load that gives up at the first record it cannot read
RECURSIVE LoadFromUntilBad(_, _, _, _)
LoadFromUntilBad(s, store, i, stray) ==
    IF ~(i < GetCount(store) /\ i < MAX_SCHEDULES) THEN s
    ELSE IF GetBytes(store, i).len = RECORD_SIZE
    THEN LoadFromUntilBad(RestoreRecord(s, GetBytes(store, i), stray), store,
                          i + 1, stray)
    ELSE s

RECURSIVE LoadFrom(_, _, _, _)
LoadFrom(s, store, i, stray) ==
    IF ~(i < GetCount(store) /\ i < MAX_SCHEDULES) THEN s
    ELSE IF GetBytes(store, i).len = RECORD_SIZE
    THEN LoadFrom(RestoreRecord(s, GetBytes(store, i), stray), store, i + 1, stray)
    ELSE LoadFrom(s, store, i + 1, stray)

prv_load_schedules_from_flash(s, store, stray) ==
    IF GetCount(store) > 0 THEN LoadFrom(s, store, 0, stray) ELSE s

\* the ordinals of the records one load pass reads and finds complete
LoadedOrdinals(store) ==
    {k \in Ordinals : k < GetCount(store) /\ GetBytes(store, k).len = RECORD_SIZE}

\* the indexes at which one load pass reads schedules[target_slot].active
LoadReads(store) ==
    {GetBytes(store, k).original_id : k \in
        {j \in LoadedOrdinals(store) : GetBytes(store, j).original_id < MAX_SCHEDULES}}

\* ------------------------------------------------------------------------
\* Messages the engine and the time adapter publish
\* ------------------------------------------------------------------------
TimeRequest == [msg_id |-> "MSG_0100"]

ZeroTime == [day |-> 0, hour |-> 0, min |-> 0]

\* the MSG_0100 handler of TimeSync: the response to one time request
TimeSyncResponse(valid, t) ==
    [msg_id |-> "MSG_0101", time_valid |-> valid,
     timeinfo |-> IF valid THEN t ELSE ZeroTime]

prv_play_song(song_index) == [msg_id |-> "MSG_0302", song_index |-> song_index]

ScheduleResponse(success, schedule_id) ==
    [msg_id |-> "MSG_0405", success |-> success, schedule_id |-> schedule_id]

ScheduleInfo(e, i) ==
    [schedule_id |-> i, hour |-> e.hour, minute |-> e.minute,
     song_index |-> e.song_index]

RECURSIVE ListEverySlotFrom(_, _, _)
ListEverySlotFrom(s, i, list) ==
    IF ~(i < MAX_SCHEDULES /\ Len(list) < LIST_CAPACITY) THEN list
    ELSE ListEverySlotFrom(s, i + 1, Append(list, ScheduleInfo(s[i], i)))

\* the loop of the List handler
RECURSIVE ListFrom(_, _, _)
ListFrom(s, i, list) ==
    IF ~(i < MAX_SCHEDULES /\ Len(list) < LIST_CAPACITY) THEN list
    ELSE IF s[i].active THEN ListFrom(s, i + 1, Append(list, ScheduleInfo(s[i], i)))
    ELSE ListFrom(s, i + 1, list)

ScheduleList(s) ==
    [msg_id |-> "MSG_0406", count |-> Len(ListFrom(s, 0, <<>>)),
     schedules |-> ListFrom(s, 0, <<>>)]

\* ------------------------------------------------------------------------
\* prv_check_schedules
\* ------------------------------------------------------------------------
\* a minute change that counts only when the new minute is the entry's
MinuteChangedToOwn(e, current_min) ==
    e.last_checked_min # current_min /\ e.minute = current_min

\* "check if minute changed since last check"
MinuteChanged(e, current_min) == e.last_checked_min # current_min

\* a minute change that records the new minute and keeps the debounce
RecordMinuteChange(e, current_min) ==
    IF MinuteChanged(e, current_min)
    THEN [e EXCEPT !.last_checked_min = current_min]
    ELSE e

ResetOnMinuteChange(e, current_min) ==
    IF MinuteChanged(e, current_min)
    THEN [e EXCEPT !.last_checked_min = current_min, !.triggered = FALSE]
    ELSE e

ShouldTriggerNoDebounce(e, current_hour, current_min) ==
    e.hour = current_hour /\ e.minute = current_min

\* "time matches and hasn't been triggered yet this minute"
ShouldTrigger(e, current_hour, current_min) ==
    e.hour = current_hour /\ e.minute = current_min /\ ~e.triggered

\* an entry that is spent once it has fired
MarkTriggeredOneShot(e) == [e EXCEPT !.triggered = TRUE, !.active = FALSE]

MarkTriggered(e) == [e EXCEPT !.triggered = TRUE]

\* one pass of the loop body over an active entry
CheckEntry(e, current_hour, current_min) ==
    IF ShouldTrigger(ResetOnMinuteChange(e, current_min), current_hour, current_min)
    THEN MarkTriggered(ResetOnMinuteChange(e, current_min))
    ELSE ResetOnMinuteChange(e, current_min)

\* a loop that plays once for entries with the same time and song
FiringSlotsWithoutDuplicates(s, current_hour, current_min) ==
    {i \in Slots : /\ s[i].active
                   /\ ShouldTrigger(ResetOnMinuteChange(s[i], current_min),
                                    current_hour, current_min)
                   /\ \A j \in Slots :
                         (j < i /\ s[j].active) =>
                             <<s[j].hour, s[j].minute, s[j].song_index>>
                                 # <<s[i].hour, s[i].minute, s[i].song_index>>}

\* the slots whose pass calls prv_play_song
FiringSlots(s, current_hour, current_min) ==
    {i \in Slots : /\ s[i].active
                   /\ ShouldTrigger(ResetOnMinuteChange(s[i], current_min),
                                    current_hour, current_min)}

\* a loop that publishes the Plays from the last slot down
RECURSIVE PlaysFromDescending(_, _, _)
PlaysFromDescending(s, fired, i) ==
    IF i >= MAX_SCHEDULES THEN <<>>
    ELSE PlaysFromDescending(s, fired, i + 1)
           \o (IF i \in fired THEN <<prv_play_song(s[i].song_index)>> ELSE <<>>)

\* the MSG_0302 the loop publishes: the firing slots in the order of the loop
RECURSIVE PlaysFrom(_, _, _)
PlaysFrom(s, fired, i) ==
    IF i >= MAX_SCHEDULES THEN <<>>
    ELSE IF i \in fired
    THEN <<prv_play_song(s[i].song_index)>> \o PlaysFrom(s, fired, i + 1)
    ELSE PlaysFrom(s, fired, i + 1)

\* the loop over the slots: inactive slots are skipped
CheckSlots(s, current_hour, current_min) ==
    LET fired == FiringSlots(s, current_hour, current_min)
    IN  [schedules |-> [i \in Slots |->
                          IF s[i].active
                          THEN CheckEntry(s[i], current_hour, current_min)
                          ELSE s[i]],
         plays |-> PlaysFrom(s, fired, 0),
         fired |-> fired]

\* u8 current_hour = tm_hour; u8 current_min = tm_min
prv_check_schedules(s, timeinfo) ==
    CheckSlots(s, timeinfo.hour % 256, timeinfo.min % 256)

\* ------------------------------------------------------------------------
\* State
\* ------------------------------------------------------------------------
VARIABLES
    schedules,           \* static schedule_entry_t schedules[MAX_SCHEDULES]
    scheduling_enabled,  \* static bool scheduling_enabled
    time_valid,          \* static bool time_valid
    current_time,        \* static struct tm current_time
    preferences,         \* the persisted store
    clock,               \* the calendar minute the wall clock last showed
    req,                 \* the request the last action handled
    out,                 \* the messages the last action published, in order
    nvs_writes,          \* the store keys the last action wrote
    flash_at_publish,    \* the store as it was when the last action published
    evals,               \* calls of prv_check_schedules in the last action
    runMin,              \* minute of the current run of valid samples
    runPlays,            \* slot -> Plays of its entry in the current run (if any)
    runMatched,          \* slots whose entry a sample of the current run matched
    minPlays,            \* slot -> Plays of its entry in calendar minute clock
    removed,             \* slots whose entry a Remove request named, not occupied since
    adds,                \* Add requests delivered so far
    rearmed,             \* slots the last action found triggered and left untriggered
    subscribers,         \* the subscription table of the message bus
    table_lock,          \* the task that holds the table lock, or "none"
    stacks,              \* task -> its call stack, innermost frame last
    started,             \* task -> the functions it has entered so far
    run_once,            \* static bool run_once of the console's test command
    registered,          \* topic -> the handlers subscribed, in the order of the calls
    delivered,           \* task -> the publish that returned last on it
    log,                 \* task -> the calls and returns of its current function
    capacity,            \* the capacities the bus was built with
    rejected,            \* the subscribe calls that failed with CapacityExceeded
    engine_pc,           \* task -> the engine code it is inside, and its position
    configured           \* slot -> the request or record that configured it, until removed

app_vars == <<schedules, scheduling_enabled, time_valid, current_time, preferences,
              clock, req, out, nvs_writes, flash_at_publish, evals, runMin,
              runPlays, runMatched, minPlays, removed, adds, rearmed>>

bus_vars == <<subscribers, table_lock, stacks, started, run_once, registered,
              delivered, log, capacity, rejected>>

race_vars == <<engine_pc, configured>>

vars == <<app_vars, bus_vars, race_vars>>

engine == <<schedules, scheduling_enabled, time_valid, current_time, preferences>>

history == <<runMin, runPlays, runMatched, minPlays, removed>>

\* the store a handler's publish finds, given the store before the handler
\* ran and the store its save leaves
AtPublishBeforeSave(before, after) == before

\* the handlers call prv_save_schedules_to_flash before they publish
AtPublish(before, after) == after

\* counters of Plays: a function on the slots that have played, capped at 2
NoPlays == <<>>

Plays(f, i) == IF i \in DOMAIN f THEN f[i] ELSE 0

Capped(n) == IF n >= 2 THEN 2 ELSE n

MorePlays(f, fired) ==
    [i \in DOMAIN f \cup fired |-> Capped(Plays(f, i) + (IF i \in fired THEN 1 ELSE 0))]

Forget(f, slots) == [i \in DOMAIN f \ slots |-> f[i]]

\* ------------------------------------------------------------------------
\* The message bus (lib/MessageBroker): topics, tasks and the subscription
\* table
\* ------------------------------------------------------------------------
\* msg_id_e, with the schedule topics the modules use
Topics ==
    {"MSG_0001", "MSG_0002", "MSG_0003", "MSG_0004", "MSG_0100", "MSG_0101",
     "MSG_0200", "MSG_0201", "MSG_0202", "MSG_0203",
     "MSG_0300", "MSG_0301", "MSG_0302", "MSG_0303", "MSG_0304", "MSG_0305",
     "MSG_0306", "MSG_0307", "MSG_0308",
     "MSG_0400", "MSG_0401", "MSG_0402", "MSG_0403", "MSG_0404", "MSG_0405",
     "MSG_0406"}

\* the execution contexts: the task that runs setup() and the host loop, the
\* console task and the task of the WiFi manager
Tasks == {"host", "console", "wifi"}

\* subscribers one topic can hold
MaxSubscribers == 3

\* subscriptions the table can hold over all topics: one for every subscribe
\* call of the modules
MaxHandlers == 26

\* the capacities of a bus that accepts every subscribe call of the modules
DeclaredCapacity == [topic |-> MaxSubscribers, total |-> MaxHandlers]

\* one topic's list: the handlers in slots 1 .. count
EmptyList == [count |-> 0, slots |-> [i \in 1 .. MaxSubscribers |-> "null"]]

\* messagebroker_init: an empty table, no task inside the bus
messagebroker_init(capacities) ==
    /\ capacity \in capacities
    /\ rejected = {}
    /\ subscribers = [topic \in Topics |-> EmptyList]
    /\ table_lock = "none"
    /\ stacks = [t \in Tasks |-> <<>>]
    /\ started = [t \in Tasks |-> 0]
    /\ run_once = TRUE
    /\ registered = [topic \in Topics |-> <<>>]
    /\ delivered = [t \in Tasks |-> [topic |-> "none", invoked |-> <<>>, reg |-> <<>>]]
    /\ log = [t \in Tasks |-> <<>>]

\* ------------------------------------------------------------------------
\* Stores the device may boot with
\* ------------------------------------------------------------------------
\* the store after Add(7, 30, 5) was answered on a first boot
OneSchedule == [InitSchedules EXCEPT ![0] = ArmedEntry(7, 30, 5)]

OneStore == prv_save_schedules_to_flash(OneSchedule, EmptyStore)

\* the store after Add was answered once for every slot: 07:30 -> song i + 1
\* in slot i
FullSchedules == [i \in Slots |-> ArmedEntry(7, 30, i + 1)]

FullStore == prv_save_schedules_to_flash(FullSchedules, EmptyStore)

\* the tasks that run engine code: the console task delivers the schedule
\* requests, the host loop calls appcontrol_run
EngineTasks == {"console", "host"}

\* the task is not inside the engine
Idle == [op |-> "idle"]

\* hour, minute and song index of an entry
Config(e) == [hour |-> e.hour, minute |-> e.minute, song_index |-> e.song_index]

Configured(s) == [i \in ActiveSlots(s) |-> Config(s[i])]

\* appcontrol_init: the array is initialised, then loaded from the store
appcontrol_init(store, stray) ==
    prv_load_schedules_from_flash(InitSchedules, store, stray)

BootWith(stores, capacities) ==
    /\ preferences \in stores
    /\ \E stray \in SUBSET StrayIndexes : schedules = appcontrol_init(preferences, stray)
    /\ scheduling_enabled = TRUE
    /\ time_valid = FALSE
    /\ current_time = ZeroTime
    /\ clock = BootTime
    /\ req = [op |-> "init"]
    /\ out = <<>>
    /\ nvs_writes = NoWrites
    /\ flash_at_publish = preferences
    /\ evals = 0
    /\ runMin = UNSET_MIN
    /\ runPlays = NoPlays
    /\ runMatched = {}
    /\ minPlays = NoPlays
    /\ removed = {}
    /\ adds = 0
    /\ rearmed = {}
    /\ messagebroker_init(capacities)
    /\ engine_pc = [t \in EngineTasks |-> Idle]
    /\ configured = Configured(schedules)

Boot(stores) == BootWith(stores, {DeclaredCapacity})

\* ------------------------------------------------------------------------
\* MSG_0101: a time sample response delivered to the engine
\* ------------------------------------------------------------------------
\* the bookkeeping of the Plays of one evaluated sample t, given the slots
\* that published a Play
CountPlays(t, fired) ==
    /\ runMin' = t.min
    /\ runPlays' = MorePlays(IF t.min # runMin THEN NoPlays ELSE runPlays, fired)
    /\ runMatched' = (IF t.min # runMin THEN {} ELSE runMatched)
          \cup {i \in Slots : /\ schedules[i].active
                              /\ schedules[i].hour = t.hour
                              /\ schedules[i].minute = t.min}
    /\ minPlays' = MorePlays(IF t # clock THEN NoPlays ELSE minPlays, fired)
    /\ removed' = removed

\* the active slots whose trigger flag an evaluation cleared
Rearmed(s, checked) ==
    {i \in Slots : s[i].active /\ s[i].triggered /\ ~checked[i].triggered}

\* a handler that evaluates the sample whatever its validity flag
TimeResponseHandlerIgnoringValidity(response, before) ==
    /\ time_valid' = response.time_valid
    /\ LET checked == prv_check_schedules(schedules, response.timeinfo)
       IN  /\ current_time' = response.timeinfo
           /\ schedules' = checked.schedules
           /\ rearmed' = Rearmed(schedules, checked.schedules)
           /\ out' = before \o checked.plays
           /\ evals' = 1
           /\ clock' = IF response.time_valid THEN response.timeinfo ELSE clock
           /\ CountPlays(clock', checked.fired)
    /\ UNCHANGED <<scheduling_enabled, preferences, adds>>
    /\ UNCHANGED <<bus_vars, race_vars>>
    /\ nvs_writes' = NoWrites
    /\ flash_at_publish' = preferences

\* the handler: before holds the messages published earlier in the same call chain
TimeResponseHandler(response, before) ==
    /\ time_valid' = response.time_valid
    /\ IF response.time_valid
       THEN LET checked == prv_check_schedules(schedules, response.timeinfo)
            IN  /\ current_time' = response.timeinfo
                /\ schedules' = checked.schedules
                /\ rearmed' = Rearmed(schedules, checked.schedules)
                /\ out' = before \o checked.plays
                /\ evals' = 1
                /\ clock' = response.timeinfo
                /\ CountPlays(response.timeinfo, checked.fired)
       ELSE /\ out' = before
            /\ evals' = 0
            /\ rearmed' = {}
            /\ UNCHANGED <<current_time, schedules, clock, history>>
    /\ UNCHANGED <<scheduling_enabled, preferences, adds>>
    /\ UNCHANGED <<bus_vars, race_vars>>
    /\ nvs_writes' = NoWrites
    /\ flash_at_publish' = preferences

\* the readings the time adapter can answer with: none (not valid), or a
\* calendar minute of times not before the one last shown
Readings(times) ==
    {TimeSyncResponse(FALSE, ZeroTime)}
      \cup {TimeSyncResponse(TRUE, t) : t \in {u \in times : Stamp(u) >= Stamp(clock)}}

\* a tick that requests the time twice
appcontrol_run_requesting_twice(times) ==
    /\ req' = [op |-> "run"]
    /\ IF ~scheduling_enabled
       THEN /\ out' = <<>>
            /\ evals' = 0
            /\ rearmed' = {}
            /\ nvs_writes' = NoWrites
            /\ flash_at_publish' = preferences
            /\ UNCHANGED <<engine, clock, history, adds>>
            /\ UNCHANGED <<bus_vars, race_vars>>
       ELSE \E response \in Readings(times) :
               TimeResponseHandler(response, <<TimeRequest, TimeRequest>>)

\* appcontrol_run: one tick of the host loop
appcontrol_run(times) ==
    /\ req' = [op |-> "run"]
    /\ IF ~scheduling_enabled
       THEN /\ out' = <<>>
            /\ evals' = 0
            /\ rearmed' = {}
            /\ nvs_writes' = NoWrites
            /\ flash_at_publish' = preferences
            /\ UNCHANGED <<engine, clock, history, adds>>
            /\ UNCHANGED <<bus_vars, race_vars>>
       ELSE \E response \in Readings(times) :
               TimeResponseHandler(response, <<TimeRequest>>)

\* a time request of another publisher: the adapter's response reaches the
\* engine's MSG_0101 subscription
TimeResponse(times) ==
    /\ req' = [op |-> "time"]
    /\ \E response \in Readings(times) : TimeResponseHandler(response, <<>>)

\* ------------------------------------------------------------------------
\* MSG_0400 .. MSG_0404: the schedule requests
\* ------------------------------------------------------------------------
With(f, i, x) == [j \in DOMAIN f \cup {i} |-> IF j = i THEN x ELSE f[j]]

Without(f, slots) == [j \in DOMAIN f \ slots |-> f[j]]

Quiet ==
    /\ evals' = 0
    /\ rearmed' = {}
    /\ flash_at_publish' = AtPublish(preferences, preferences')
    /\ UNCHANGED <<time_valid, current_time, clock, runMin>>
    /\ UNCHANGED <<bus_vars, engine_pc>>

\* a slot that gets a new occupant, or loses its occupant, starts its
\* bookkeeping afresh
ForgetSlots(slots) ==
    /\ runPlays' = Forget(runPlays, slots)
    /\ runMatched' = runMatched \ slots
    /\ minPlays' = Forget(minPlays, slots)

AddSlotOverwritingLast(s) ==
    IF FindFreeSlot(s) >= 0 THEN FindFreeSlot(s) ELSE MAX_SCHEDULES - 1

\* the slot an Add request occupies
AddSlot(s) == FindFreeSlot(s)

\* an Add that leaves the debounce fields of the slot as they are
AddEntryKeepingDebounce(s, free_slot, cmd) ==
    [s EXCEPT ![free_slot] =
        [@ EXCEPT !.active = TRUE, !.hour = cmd.hour, !.minute = cmd.minute,
                  !.song_index = cmd.song_index]]

\* an Add that keeps the weekday mask with the entry
AddEntryWithWeekdays(s, free_slot, cmd) ==
    [s EXCEPT ![free_slot] =
        [active |-> TRUE, hour |-> cmd.hour, minute |-> cmd.minute,
         song_index |-> cmd.song_index, triggered |-> FALSE,
         last_checked_min |-> UNSET_MIN, weekday_mask |-> cmd.weekday_mask]]

AddEntry(s, free_slot, cmd) ==
    [s EXCEPT ![free_slot] = ArmedEntry(cmd.hour, cmd.minute, cmd.song_index)]

AddSchedule(cmd) ==
    /\ adds < MaxAdds
    /\ adds' = adds + 1
    /\ req' = [op |-> "add", cmd |-> cmd]
    /\ LET free_slot == AddSlot(schedules)
       IN  IF free_slot >= 0
           THEN /\ schedules' = AddEntry(schedules, free_slot, cmd)
                /\ preferences' = prv_save_schedules_to_flash(schedules', preferences)
                /\ nvs_writes' = SaveWrites(schedules')
                /\ out' = <<ScheduleResponse(TRUE, free_slot)>>
                /\ ForgetSlots({free_slot})
                /\ removed' = removed \ {free_slot}
                /\ configured' = With(configured, free_slot, cmd)
           ELSE /\ out' = <<ScheduleResponse(FALSE, -1)>>
                /\ nvs_writes' = NoWrites
                /\ UNCHANGED <<schedules, preferences, runPlays, runMatched,
                               minPlays, removed, configured>>
    /\ UNCHANGED scheduling_enabled
    /\ Quiet

ValidScheduleIdAboveZero(schedule_id) == schedule_id > 0 /\ schedule_id < MAX_SCHEDULES

ValidScheduleIdUnchecked(schedule_id) == schedule_id = schedule_id

\* the range check of the Remove handler
ValidScheduleId(schedule_id) == schedule_id >= 0 /\ schedule_id < MAX_SCHEDULES

RemoveEntryDisarmOnly(s, schedule_id) ==
    IF schedule_id \in Slots THEN [s EXCEPT ![schedule_id].triggered = FALSE] ELSE s

RemoveEntry(s, schedule_id) == [s EXCEPT ![schedule_id].active = FALSE]

RemoveSchedule(schedule_id) ==
    /\ req' = [op |-> "remove", schedule_id |-> schedule_id]
    /\ IF ValidScheduleId(schedule_id)
       THEN /\ schedules' = RemoveEntry(schedules, schedule_id)
            /\ preferences' = prv_save_schedules_to_flash(schedules', preferences)
            /\ nvs_writes' = SaveWrites(schedules')
            /\ out' = <<ScheduleResponse(TRUE, schedule_id)>>
            /\ ForgetSlots({schedule_id})
            /\ removed' = removed \cup ({schedule_id} \cap ActiveSlots(schedules))
            /\ configured' = Without(configured, {schedule_id})
       ELSE /\ out' = <<ScheduleResponse(FALSE, -1)>>
            /\ nvs_writes' = NoWrites
            /\ UNCHANGED <<schedules, preferences, runPlays, runMatched, minPlays,
                           removed, configured>>
    /\ UNCHANGED <<scheduling_enabled, adds>>
    /\ Quiet

ListSchedules ==
    /\ req' = [op |-> "list"]
    /\ out' = <<ScheduleList(schedules)>>
    /\ nvs_writes' = NoWrites
    /\ UNCHANGED <<schedules, preferences, scheduling_enabled, adds, runPlays,
                   runMatched, minPlays, removed, configured>>
    /\ Quiet

ClearEntries(s) == [i \in Slots |-> [s[i] EXCEPT !.active = FALSE]]

ClearSchedules ==
    /\ req' = [op |-> "clear"]
    /\ schedules' = ClearEntries(schedules)
    /\ preferences' = prv_save_schedules_to_flash(schedules', preferences)
    /\ nvs_writes' = SaveWrites(schedules')
    /\ out' = <<ScheduleResponse(TRUE, -1)>>
    /\ ForgetSlots(ActiveSlots(schedules))
    /\ configured' = Without(configured, Slots)
    /\ UNCHANGED <<scheduling_enabled, adds, removed>>
    /\ Quiet

SetEnabled(enabled) ==
    /\ req' = [op |-> "enable", enabled |-> enabled]
    /\ scheduling_enabled' = enabled
    /\ out' = <<ScheduleResponse(TRUE, -1)>>
    /\ nvs_writes' = NoWrites
    /\ UNCHANGED <<schedules, preferences, adds, runPlays, runMatched, minPlays,
                   removed, configured>>
    /\ Quiet

\* ------------------------------------------------------------------------
\* Restart of the device: the statics take their initialisers again and
\* appcontrol_init loads the array from the store
\* ------------------------------------------------------------------------
\* a restart after which the scheduling flag is what it was before
RestartKeepingFlag ==
    /\ req' = [op |-> "restart"]
    /\ \E stray \in SUBSET StrayIndexes :
          schedules' = appcontrol_init(preferences, stray)
    /\ time_valid' = FALSE
    /\ current_time' = ZeroTime
    /\ out' = <<>>
    /\ nvs_writes' = NoWrites
    /\ flash_at_publish' = preferences
    /\ evals' = 0
    /\ rearmed' = {}
    /\ runMin' = UNSET_MIN
    /\ runPlays' = NoPlays
    /\ runMatched' = {}
    /\ configured' = Configured(schedules')
    /\ UNCHANGED <<scheduling_enabled, preferences, clock, minPlays, removed, adds>>
    /\ UNCHANGED <<bus_vars, engine_pc>>

Restart ==
    /\ req' = [op |-> "restart"]
    /\ \E stray \in SUBSET StrayIndexes :
          schedules' = appcontrol_init(preferences, stray)
    /\ scheduling_enabled' = TRUE
    /\ time_valid' = FALSE
    /\ current_time' = ZeroTime
    /\ out' = <<>>
    /\ nvs_writes' = NoWrites
    /\ flash_at_publish' = preferences
    /\ evals' = 0
    /\ rearmed' = {}
    /\ runMin' = UNSET_MIN
    /\ runPlays' = NoPlays
    /\ runMatched' = {}
    /\ configured' = Configured(schedules')
    /\ UNCHANGED <<preferences, clock, minPlays, removed, adds>>
    /\ UNCHANGED <<bus_vars, engine_pc>>

\* ------------------------------------------------------------------------
\* Spec: a device that boots with no schedule or with one, a clock running over
\* the days, schedules added and removed
\* ------------------------------------------------------------------------
Init == Boot({EmptyStore, OneStore})

Next ==
    \/ appcontrol_run(Times)
    \/ TimeResponse(Times)
    \/ \E cmd \in AddInputs : AddSchedule(cmd)
    \/ \E schedule_id \in RemoveIds : RemoveSchedule(schedule_id)
    \/ ListSchedules
    \/ ClearSchedules
    \/ \E enabled \in BOOLEAN : SetEnabled(enabled)
    \/ Restart

Spec == Init /\ [][Next]_vars

\* ------------------------------------------------------------------------
\* SpecStore: a device that boots with a store holding a schedule for every
\* slot; the clock stays within one calendar minute
\* ------------------------------------------------------------------------
InitStore == Boot({FullStore})

NextStore ==
    \/ appcontrol_run(BootTimes)
    \/ TimeResponse(BootTimes)
    \/ \E cmd \in AddInputs : AddSchedule(cmd)
    \/ \E schedule_id \in EdgeRemoveIds : RemoveSchedule(schedule_id)
    \/ ListSchedules
    \/ ClearSchedules
    \/ \E enabled \in BOOLEAN : SetEnabled(enabled)
    \/ Restart

SpecStore == InitStore /\ [][NextStore]_vars

\* ------------------------------------------------------------------------
\* SpecLoad: a device that boots with a store the engine did not write as it
\* is (records damaged, lost or edited), Add requests of the console and of
\* other publishers
\* ------------------------------------------------------------------------
Record(hour, minute, song_index, original_id) ==
    [len |-> RECORD_SIZE, hour |-> hour, minute |-> minute,
     song_index |-> song_index, original_id |-> original_id]

StoreOf(count, recs) == [cnt |-> [present |-> TRUE, value |-> count], recs |-> recs]

\* two records name slot 0, the third names a slot behind the array
ClashingStore ==
    StoreOf(3, [k \in 0 .. 2 |->
                  CASE k = 0 -> Record(7, 30, 5, 0)
                    [] k = 1 -> Record(7, 31, 6, 0)
                    [] k = 2 -> Record(8, 31, 7, MAX_SCHEDULES)])

\* the first record is cut short, the second is missing, the third and
\* fourth are complete
DamagedStore ==
    StoreOf(4, [k \in {0, 2, 3} |->
                  CASE k = 0 -> [Record(9, 15, 4, 3) EXCEPT !.len = 4]
                    [] k = 2 -> Record(7, 30, 5, 2)
                    [] k = 3 -> Record(7, 31, 6, 3)])

\* the first record names a slot in front of the array, the second holds an
\* hour and a minute no clock shows
EditedStore ==
    StoreOf(2, [k \in 0 .. 1 |->
                  CASE k = 0 -> Record(7, 30, 5, -1)
                    [] k = 1 -> Record(25, 61, 6, 1)])

\* the count key says more records than the array has slots
OvercountedStore == [FullStore EXCEPT !.cnt.value = MAX_SCHEDULES + 1]

LoadStores == {ClashingStore, DamagedStore, EditedStore, OvercountedStore}

\* payloads of msg_schedule_add_t a publisher other than the console sends
BusAddInputs ==
    { [hour |-> 24, minute |-> 60, song_index |-> 0],
      [hour |-> 7, minute |-> 30, song_index |-> 5] }

\* arguments of the console command schedule_add: the numbers after atoi,
\* and the weekday list split at its commas
ConsoleAddArgs ==
    { [hour |-> 23, minute |-> 59, song_index |-> 1, weekdays |-> <<"*">>],
      [hour |-> 24, minute |-> 0, song_index |-> 1, weekdays |-> <<"*">>],
      [hour |-> 7, minute |-> 60, song_index |-> 1, weekdays |-> <<"*">>],
      [hour |-> -1, minute |-> 30, song_index |-> 1, weekdays |-> <<"*">>],
      [hour |-> 7, minute |-> 30, song_index |-> 0, weekdays |-> <<"*">>],
      [hour |-> 7, minute |-> 30, song_index |-> 1, weekdays |-> <<"Mo", "Xy">>] }

\* the bit of a weekday name, -1 for any other token
WeekdayBit(token) ==
    CASE token \in {"Mo", "mon"} -> 0
      [] token \in {"Tue", "tue"} -> 1
      [] token \in {"Wed", "wed"} -> 2
      [] token \in {"Thu", "thu"} -> 3
      [] token \in {"Fri", "fri"} -> 4
      [] token \in {"Sat", "sat"} -> 5
      [] token \in {"Sun", "sun"} -> 6
      [] OTHER -> -1

\* weekday_mask |= (1 << bit), on the u8 mask
SetBit(mask, bit) == IF (mask \div (2 ^ bit)) % 2 = 1 THEN mask ELSE mask + 2 ^ bit

\* the loop over the tokens: -1 at the first token that names no weekday
RECURSIVE ParseTokens(_, _)
ParseTokens(tokens, mask) ==
    IF tokens = <<>> THEN mask
    ELSE IF WeekdayBit(Head(tokens)) < 0 THEN -1
    ELSE ParseTokens(Tail(tokens), SetBit(mask, WeekdayBit(Head(tokens))))

\* the weekday mask of the list: 0x7F for "*", -1 for an invalid name
ParseWeekdays(tokens) == IF tokens = <<"*">> THEN 127 ELSE ParseTokens(tokens, 0)

\* the argument checks of the console command
ConsoleAccepts(args) ==
    /\ ~(args.hour < 0 \/ args.hour > 23)
    /\ ~(args.minute < 0 \/ args.minute > 59)
    /\ ~(args.song_index < 1)
    /\ ParseWeekdays(args.weekdays) >= 0
    /\ ~(ParseWeekdays(args.weekdays) = 0)

\* the console command: it publishes MSG_0400 when the arguments pass its
\* checks, and returns CLI_FAIL_STATUS without publishing otherwise
prv_cmd_schedule_add(args) ==
    IF ConsoleAccepts(args)
    THEN AddSchedule([hour |-> args.hour % 256, minute |-> args.minute % 256,
                      song_index |-> args.song_index % 65536,
                      weekday_mask |-> ParseWeekdays(args.weekdays)])
    ELSE /\ req' = [op |-> "cli_fail"]
         /\ out' = <<>>
         /\ nvs_writes' = NoWrites
         /\ flash_at_publish' = preferences
         /\ evals' = 0
         /\ rearmed' = {}
         /\ UNCHANGED <<engine, clock, history, adds>>
         /\ UNCHANGED <<bus_vars, race_vars>>

InitLoad == Boot(LoadStores)

NextLoad ==
    \/ appcontrol_run(BootTimes)
    \/ TimeResponse(BootTimes)
    \/ \E cmd \in BusAddInputs : AddSchedule(cmd)
    \/ \E args \in ConsoleAddArgs : prv_cmd_schedule_add(args)
    \/ \E schedule_id \in RemoveIds : RemoveSchedule(schedule_id)
    \/ ListSchedules
    \/ ClearSchedules
    \/ \E enabled \in BOOLEAN : SetEnabled(enabled)
    \/ Restart

SpecLoad == InitLoad /\ [][NextLoad]_vars

\* ------------------------------------------------------------------------
\* SpecWeek: a device that boots with no schedule; the console adds
\* schedules with weekday lists and the clock runs over a week
\* ------------------------------------------------------------------------
\* the days of one week, day 0 a Monday
WeekDays == 0 .. 6

WeekTimes == [day : WeekDays, hour : {7}, min : {30, 31}]

WeekAddArgs ==
    { [hour |-> 7, minute |-> 30, song_index |-> 5, weekdays |-> tokens] :
        tokens \in {<<"*">>, <<"Mo">>, <<"Sat", "sun">>, <<"Mo", "Mo">>, <<>>, <<"Mo", "*">>} }

InitWeek == Boot({EmptyStore})

NextWeek ==
    \/ appcontrol_run(WeekTimes)
    \/ \E args \in WeekAddArgs : prv_cmd_schedule_add(args)
    \/ ListSchedules
    \/ \E schedule_id \in RemoveIds : RemoveSchedule(schedule_id)

SpecWeek == InitWeek /\ [][NextWeek]_vars

\* ------------------------------------------------------------------------
\* The bus calls of the modules
\* ------------------------------------------------------------------------
\* msg_t.data_size: the size of the topic's payload type, or another size
DataSizes == {"sizeof", "other"}

Subscribe(topic, handler) ==
    [op |-> "subscribe", topic |-> topic, handler |-> handler, data_size |-> "sizeof"]

\* a publish of a message whose data_size is the one given
PublishSized(topic, data_size) ==
    [op |-> "publish", topic |-> topic, handler |-> "none", data_size |-> data_size]

\* the publishes of the modules set data_size to sizeof of the payload type
Publish(topic) == PublishSized(topic, "sizeof")

wifimanager_init ==
    << Subscribe("MSG_0003", "wifimanager"),
       Subscribe("MSG_0200", "wifimanager"),
       Subscribe("MSG_0201", "wifimanager") >>

\* a timesync_init that subscribes to the time request only
timesync_init_without_logging == << Subscribe("MSG_0100", "timesync") >>

timesync_init ==
    << Subscribe("MSG_0003", "timesync"),
       Subscribe("MSG_0100", "timesync") >>

mp3player_init ==
    << Subscribe("MSG_0300", "mp3player"), Subscribe("MSG_0301", "mp3player"),
       Subscribe("MSG_0302", "mp3player"), Subscribe("MSG_0303", "mp3player"),
       Subscribe("MSG_0304", "mp3player"), Subscribe("MSG_0305", "mp3player"),
       Subscribe("MSG_0306", "mp3player"), Subscribe("MSG_0307", "mp3player") >>

\* the subscriptions of appcontrol_init, made after the load
appcontrol_subscriptions ==
    << Subscribe("MSG_0003", "appcontrol"), Subscribe("MSG_0101", "appcontrol"),
       Subscribe("MSG_0400", "appcontrol"), Subscribe("MSG_0401", "appcontrol"),
       Subscribe("MSG_0402", "appcontrol"), Subscribe("MSG_0403", "appcontrol"),
       Subscribe("MSG_0404", "appcontrol") >>

console_init ==
    << Subscribe("MSG_0202", "prv_wifi_callback"),
       Subscribe("MSG_0203", "prv_wifi_callback"),
       Subscribe("MSG_0308", "prv_mp3_callback"),
       Subscribe("MSG_0405", "prv_schedule_callback"),
       Subscribe("MSG_0406", "prv_schedule_callback") >>

\* a test command that subscribes on every run
prv_cmd_msgbroker_subscribes_every_run(first_run) ==
    << Subscribe("MSG_0001", "prv_msg_broker_callback"), Publish("MSG_0001") >>

\* the console's test command: it subscribes on its first run only
prv_cmd_msgbroker_can_subscribe_and_publish(first_run) ==
    (IF first_run THEN << Subscribe("MSG_0001", "prv_msg_broker_callback") >> ELSE <<>>)
      \o << Publish("MSG_0001") >>

\* the console's logging command
prv_cmd_log == << Publish("MSG_0003") >>

\* the console's command wifi_set
prv_cmd_wifi_set == << Publish("MSG_0200") >>

\* prv_publish_connection_status of the WiFi manager task
prv_publish_connection_status == << Publish("MSG_0203") >>

\* the tick of the host loop, scheduling enabled
appcontrol_run_publish == << Publish("MSG_0100") >>

RECURSIVE Repeat(_, _)
Repeat(n, calls) == IF n = 0 THEN <<>> ELSE calls \o Repeat(n - 1, calls)

\* an MP3 handler that plays without answering
MutePlayerCalls(handler, topic, firing) ==
    CASE handler = "timesync" /\ topic = "MSG_0100" -> << Publish("MSG_0101") >>
      [] handler = "appcontrol" /\ topic = "MSG_0101" ->
            Repeat(firing, << Publish("MSG_0302") >>)
      [] OTHER -> <<>>

\* the ASSERT of a handler fails: the WiFi manager's check of data_size on
\* MSG_0200
HandlerAsserts(handler, topic, data_size) ==
    handler = "wifimanager" /\ topic = "MSG_0200" /\ data_size # "sizeof"

\* an engine that acknowledges a List request before it answers with the list
HandlerCallsListAcknowledged(handler, topic, firing) ==
    CASE handler = "timesync" /\ topic = "MSG_0100" -> << Publish("MSG_0101") >>
      [] handler = "appcontrol" /\ topic = "MSG_0101" ->
            Repeat(firing, << Publish("MSG_0302") >>)
      [] handler = "appcontrol"
           /\ topic \in {"MSG_0400", "MSG_0401", "MSG_0403", "MSG_0404"} ->
            << Publish("MSG_0405") >>
      [] handler = "appcontrol" /\ topic = "MSG_0402" ->
            << Publish("MSG_0405"), Publish("MSG_0406") >>
      [] handler = "mp3player"
           /\ topic \in {"MSG_0300", "MSG_0301", "MSG_0302", "MSG_0303", "MSG_0304",
                         "MSG_0305", "MSG_0306", "MSG_0307"} ->
            << Publish("MSG_0308") >>
      [] handler = "wifimanager" /\ topic = "MSG_0201" -> << Publish("MSG_0202") >>
      [] handler = "wifimanager" /\ topic = "MSG_0200" ->
            << Publish("MSG_0203"), Publish("MSG_0203") >>
      [] OTHER -> <<>>

\* the bus calls a handler makes when it is invoked with a message of the
\* topic; firing is the number of entries the sample fires
HandlerCalls(handler, topic, firing) ==
    CASE handler = "timesync" /\ topic = "MSG_0100" -> << Publish("MSG_0101") >>
      [] handler = "appcontrol" /\ topic = "MSG_0101" ->
            Repeat(firing, << Publish("MSG_0302") >>)
      [] handler = "appcontrol"
           /\ topic \in {"MSG_0400", "MSG_0401", "MSG_0403", "MSG_0404"} ->
            << Publish("MSG_0405") >>
      [] handler = "appcontrol" /\ topic = "MSG_0402" -> << Publish("MSG_0406") >>
      [] handler = "mp3player"
           /\ topic \in {"MSG_0300", "MSG_0301", "MSG_0302", "MSG_0303", "MSG_0304",
                         "MSG_0305", "MSG_0306", "MSG_0307"} ->
            << Publish("MSG_0308") >>
      [] handler = "wifimanager" /\ topic = "MSG_0201" -> << Publish("MSG_0202") >>
      [] handler = "wifimanager" /\ topic = "MSG_0200" ->
            << Publish("MSG_0203"), Publish("MSG_0203") >>
      [] OTHER -> <<>>

\* ------------------------------------------------------------------------
\* The call stacks.  A frame is a running function (a module function or a
\* handler, with the bus calls it still makes), a subscribe call or a publish
\* call
\* ------------------------------------------------------------------------
\* ticks of the host loop
MaxTicks == 1

\* commands typed at the console
MaxCommands == 2

\* status changes the WiFi manager task reports
MaxStatus == 1

\* entries one time sample fires
MaxFiring == 1

Frame(kind, name, topic, calls) ==
    [kind |-> kind, name |-> name, topic |-> topic, calls |-> calls,
     phase |-> "locked", snapshot |-> <<>>, next |-> 1, invoked |-> <<>>,
     reg |-> <<>>, data_size |-> "sizeof"]

FunctionFrame(name, topic, calls) == Frame("function", name, topic, calls)

\* prv_assert_failed: it suspends the console task and loops for ever
AssertFailedFrame(topic) == Frame("assert_failed", "prv_assert_failed", topic, <<>>)

Top(t) == stacks[t][Len(stacks[t])]

Push(t, frame) == [stacks EXCEPT ![t] = Append(@, frame)]

Pop(t) == [stacks EXCEPT ![t] = SubSeq(@, 1, Len(@) - 1)]

ReplaceTop(t, frame) == [stacks EXCEPT ![t] = [@ EXCEPT ![Len(@)] = frame]]

\* the publish calls in progress on the stack of t
Depth(t) == Cardinality({k \in 1 .. Len(stacks[t]) : stacks[t][k].kind = "publish"})

Running(t, kind) == stacks[t] # <<>> /\ Top(t).kind = kind

\* the tasks inside prv_assert_failed
Asserted == {t \in Tasks : stacks[t] # <<>> /\ Top(t).kind = "assert_failed"}

\* a task runs unless it loops in prv_assert_failed or, the console task, was
\* suspended by it
Runnable(t) == t \notin Asserted /\ (t = "console" => Asserted = {})

\* t runs a function whose next statement is the given bus call
AtCall(t, op) ==
    /\ Running(t, "function")
    /\ Top(t).calls # <<>>
    /\ Head(Top(t).calls).op = op

\* t has entered its first n functions and returned from them
Finished(t, n) == started[t] > n \/ (started[t] = n /\ stacks[t] = <<>>)

\* a setup that initialises the time adapter before the WiFi manager
HostFunctionsTimeSyncFirst ==
    << [name |-> "timesync_init", calls |-> timesync_init],
       [name |-> "wifimanager_init", calls |-> wifimanager_init],
       [name |-> "mp3player_init", calls |-> mp3player_init],
       [name |-> "appcontrol_init", calls |-> appcontrol_subscriptions] >>

HostFunctions ==
    << [name |-> "wifimanager_init", calls |-> wifimanager_init],
       [name |-> "timesync_init", calls |-> timesync_init],
       [name |-> "mp3player_init", calls |-> mp3player_init],
       [name |-> "appcontrol_init", calls |-> appcontrol_subscriptions] >>

\* the functions a task can enter next
NextFunctions(t) ==
    CASE t = "host" ->
            IF started[t] < Len(HostFunctions) THEN {HostFunctions[started[t] + 1]}
            ELSE IF started[t] < Len(HostFunctions) + MaxTicks
            THEN {[name |-> "appcontrol_run", calls |-> appcontrol_run_publish]}
            ELSE {}
      [] t = "console" ->
            IF ~Finished("host", Len(HostFunctions)) THEN {}
            ELSE IF started[t] = 0
            THEN {[name |-> "console_init", calls |-> console_init]}
            ELSE IF started[t] <= MaxCommands
            THEN {[name |-> "prv_cmd_msgbroker_can_subscribe_and_publish",
                   calls |-> prv_cmd_msgbroker_can_subscribe_and_publish(run_once)],
                  [name |-> "prv_cmd_log", calls |-> prv_cmd_log]}
            ELSE {}
      [] t = "wifi" ->
            IF Finished("host", 1) /\ started[t] < MaxStatus
            THEN {[name |-> "prv_publish_connection_status",
                   calls |-> prv_publish_connection_status]}
            ELSE {}

Event(e, name, topic, depth) ==
    [e |-> e, name |-> name, topic |-> topic, depth |-> depth]

Logged(t, event) == [log EXCEPT ![t] = Append(@, event)]

\* ------------------------------------------------------------------------
\* Steps of a task
\* ------------------------------------------------------------------------
\* the task enters one of the functions
EnterOne(t, functions) ==
    /\ Runnable(t)
    /\ stacks[t] = <<>>
    /\ \E f \in functions :
          /\ stacks' = Push(t, FunctionFrame(f.name, "none", f.calls))
          /\ run_once' =
                (run_once /\ f.name # "prv_cmd_msgbroker_can_subscribe_and_publish")
    /\ started' = [started EXCEPT ![t] = @ + 1]
    /\ log' = [log EXCEPT ![t] = <<>>]
    /\ UNCHANGED <<subscribers, table_lock, registered, delivered>>
    /\ UNCHANGED <<app_vars, capacity, rejected, race_vars>>

\* the task enters its next function
Enter(t) == EnterOne(t, NextFunctions(t))

\* a publish that copies the list without taking the lock
MayEnterUnlockedPublish(op) == op = "publish" \/ table_lock = "none"

\* the lock guards the table: a bus call enters when no task holds it
MayEnter(op) == table_lock = "none"

\* the holder of the lock when the snapshot is taken and the handlers run
HeldForDispatch(t) == t

ReleasedForDispatch(t) == "none"

\* the running function calls subscribe or publish: the call takes the lock
EnterBus(t, op) ==
    /\ Runnable(t)
    /\ AtCall(t, op)
    /\ MayEnter(op)
    /\ table_lock' = t
    /\ LET call == Head(Top(t).calls)
           caller == [Top(t) EXCEPT !.calls = Tail(@)]
       IN  stacks' = [stacks EXCEPT ![t] =
                         Append([@ EXCEPT ![Len(@)] = caller],
                                [Frame(op, call.handler, call.topic, <<>>)
                                    EXCEPT !.data_size = call.data_size])]
    /\ UNCHANGED <<subscribers, started, run_once, registered, delivered, log>>
    /\ UNCHANGED <<app_vars, capacity, rejected, race_vars>>

\* the subscriptions the table holds over all topics
RECURSIVE SumOfCounts(_, _)
SumOfCounts(table, topics) ==
    IF topics = {} THEN 0
    ELSE LET topic == CHOOSE x \in topics : TRUE
         IN  table[topic].count + SumOfCounts(table, topics \ {topic})

Subscriptions(table) == SumOfCounts(table, Topics)

\* a capacity test that looks at the whole table only
TableIsFull(table, topic) == Subscriptions(table) >= capacity.total

\* the topic's list is full, or the table is
IsFull(table, topic) ==
    table[topic].count >= capacity.topic \/ Subscriptions(table) >= capacity.total

Rejection(topic, handler, before) ==
    [topic |-> topic, handler |-> handler, before |-> before]

\* subscribe, first write under the lock: a full list or table rejects the
\* call with CapacityExceeded and stays as it is; otherwise the handler is
\* appended by two writes, the slot and the count, in an order the build
\* chooses
SubscribeFirst(t) ==
    /\ Runnable(t)
    /\ Running(t, "subscribe")
    /\ Top(t).phase = "locked"
    /\ LET list == subscribers[Top(t).topic]
       IN  IF IsFull(subscribers, Top(t).topic)
           THEN /\ stacks' = Pop(t)
                /\ table_lock' = "none"
                /\ rejected' = rejected \cup
                      {Rejection(Top(t).topic, Top(t).name, registered[Top(t).topic])}
                /\ UNCHANGED subscribers
           ELSE /\ UNCHANGED rejected
                /\ \E first \in {"slot", "count"} :
                      /\ stacks' = ReplaceTop(t, [Top(t) EXCEPT !.phase = first])
                      /\ subscribers' =
                            [subscribers EXCEPT ![Top(t).topic] =
                                IF first = "slot"
                                THEN [@ EXCEPT !.slots[list.count + 1] = Top(t).name]
                                ELSE [@ EXCEPT !.count = list.count + 1]]
                /\ UNCHANGED table_lock
    /\ UNCHANGED <<started, run_once, registered, delivered, log>>
    /\ UNCHANGED <<app_vars, capacity, race_vars>>

\* subscribe, second write: the list is complete, the lock is released
SubscribeSecond(t) ==
    /\ Runnable(t)
    /\ Running(t, "subscribe")
    /\ Top(t).phase \in {"slot", "count"}
    /\ LET list == subscribers[Top(t).topic]
       IN  subscribers' =
               [subscribers EXCEPT ![Top(t).topic] =
                   IF Top(t).phase = "slot"
                   THEN [@ EXCEPT !.count = list.count + 1]
                   ELSE [@ EXCEPT !.slots[list.count] = Top(t).name]]
    /\ registered' = [registered EXCEPT ![Top(t).topic] = Append(@, Top(t).name)]
    /\ table_lock' = "none"
    /\ stacks' = Pop(t)
    /\ UNCHANGED <<started, run_once, delivered, log>>
    /\ UNCHANGED <<app_vars, capacity, rejected, race_vars>>

\* a snapshot that takes the handlers last subscribed first
SnapshotReversed(list) == [i \in 1 .. list.count |-> list.slots[list.count + 1 - i]]

\* the copy of one topic's list, in the order of the slots
Snapshot(list) == [i \in 1 .. list.count |-> list.slots[i]]

\* publish, under the lock: the list of the topic is copied, then the lock
\* is released
PublishCopy(t) ==
    /\ Runnable(t)
    /\ Running(t, "publish")
    /\ Top(t).phase = "locked"
    /\ stacks' = ReplaceTop(t, [Top(t) EXCEPT
                                  !.phase = "dispatch",
                                  !.snapshot = Snapshot(subscribers[Top(t).topic]),
                                  !.reg = registered[Top(t).topic]])
    /\ table_lock' = ReleasedForDispatch(t)
    /\ UNCHANGED <<subscribers, started, run_once, registered, delivered, log>>
    /\ UNCHANGED <<app_vars, capacity, rejected, race_vars>>

\* publish, outside the lock: the next handler of the snapshot is called
Invoke(t) ==
    /\ Runnable(t)
    /\ Running(t, "publish")
    /\ Top(t).phase = "dispatch"
    /\ Top(t).next <= Len(Top(t).snapshot)
    /\ LET handler == Top(t).snapshot[Top(t).next]
           publish == [Top(t) EXCEPT !.next = @ + 1, !.invoked = Append(@, handler)]
       IN  /\ \E firing \in 0 .. MaxFiring :
                 stacks' = [stacks EXCEPT ![t] =
                    Append([@ EXCEPT ![Len(@)] = publish],
                           IF HandlerAsserts(handler, Top(t).topic, Top(t).data_size)
                           THEN AssertFailedFrame(Top(t).topic)
                           ELSE FunctionFrame(handler, Top(t).topic,
                                              HandlerCalls(handler, Top(t).topic,
                                                           firing)))]
           /\ log' = Logged(t, Event("call", handler, Top(t).topic, Depth(t)))
    /\ UNCHANGED <<subscribers, table_lock, started, run_once, registered, delivered>>
    /\ UNCHANGED <<app_vars, capacity, rejected, race_vars>>

\* a function that has made all its bus calls returns
FunctionReturn(t) ==
    /\ Runnable(t)
    /\ Running(t, "function")
    /\ Top(t).calls = <<>>
    /\ stacks' = Pop(t)
    /\ log' = IF Len(stacks[t]) > 1
              THEN Logged(t, Event("exit", Top(t).name, Top(t).topic, Depth(t)))
              ELSE log
    /\ UNCHANGED <<subscribers, table_lock, started, run_once, registered, delivered>>
    /\ UNCHANGED <<app_vars, capacity, rejected, race_vars>>

\* publish returns when every handler of its snapshot has returned
PublishReturn(t) ==
    /\ Runnable(t)
    /\ Running(t, "publish")
    /\ Top(t).phase = "dispatch"
    /\ Top(t).next > Len(Top(t).snapshot)
    /\ stacks' = Pop(t)
    /\ delivered' = [delivered EXCEPT ![t] =
                        [topic |-> Top(t).topic, invoked |-> Top(t).invoked,
                         reg |-> Top(t).reg]]
    /\ log' = Logged(t, Event("returned", "publish", Top(t).topic, Depth(t)))
    /\ UNCHANGED <<subscribers, table_lock, started, run_once, registered>>
    /\ UNCHANGED <<app_vars, capacity, rejected, race_vars>>

\* ------------------------------------------------------------------------
\* SpecBus: the tasks of the device on the bus: setup, the console and the
\* WiFi manager subscribe and publish, the host loop ticks
\* ------------------------------------------------------------------------
InitBus == Boot({OneStore})

NextBus ==
    \E t \in Tasks :
        \/ Enter(t)
        \/ \E op \in {"subscribe", "publish"} : EnterBus(t, op)
        \/ SubscribeFirst(t)
        \/ SubscribeSecond(t)
        \/ PublishCopy(t)
        \/ Invoke(t)
        \/ FunctionReturn(t)
        \/ PublishReturn(t)

SpecBus == InitBus /\ [][NextBus]_vars

\* ------------------------------------------------------------------------
\* SpecCap: the same tasks on a bus built with less capacity than the
\* subscribe calls of the modules need: two subscribers per topic, or
\* eighteen subscriptions in all
\* ------------------------------------------------------------------------
SmallCapacities ==
    { [topic |-> 2, total |-> MaxHandlers],
      [topic |-> MaxSubscribers, total |-> 18] }

InitCap == BootWith({OneStore}, SmallCapacities)

SpecCap == InitCap /\ [][NextBus]_vars

\* ------------------------------------------------------------------------
\* SpecFault: the bus as setup() of main.cpp leaves it, with one more
\* subscriber of MSG_0200 behind the WiFi manager and a publisher of MSG_0200
\* other than the console, whose data_size may differ from the payload's
\* ------------------------------------------------------------------------
\* a module that listens to the credentials
listener_init == << Subscribe("MSG_0200", "listener") >>

publish_credentials(data_size) == << PublishSized("MSG_0200", data_size) >>

SetupFunctions ==
    << [name |-> "wifimanager_init", calls |-> wifimanager_init],
       [name |-> "timesync_init", calls |-> timesync_init],
       [name |-> "listener_init", calls |-> listener_init] >>

FaultFunctions(t) ==
    CASE t = "host" ->
            IF started[t] < Len(SetupFunctions) THEN {SetupFunctions[started[t] + 1]}
            ELSE IF started[t] < Len(SetupFunctions) + MaxTicks
            THEN {[name |-> "publish_credentials", calls |-> publish_credentials(size)] :
                     size \in DataSizes}
            ELSE {}
      [] t = "console" ->
            IF ~Finished("host", Len(SetupFunctions)) THEN {}
            ELSE IF started[t] = 0
            THEN {[name |-> "console_init", calls |-> console_init]}
            ELSE IF started[t] <= MaxCommands
            THEN {[name |-> "prv_cmd_wifi_set", calls |-> prv_cmd_wifi_set],
                  [name |-> "prv_cmd_log", calls |-> prv_cmd_log]}
            ELSE {}
      [] t = "wifi" ->
            IF Finished("host", 1) /\ started[t] < MaxStatus
            THEN {[name |-> "prv_publish_connection_status",
                   calls |-> prv_publish_connection_status]}
            ELSE {}

NextFault ==
    \E t \in Tasks :
        \/ EnterOne(t, FaultFunctions(t))
        \/ \E op \in {"subscribe", "publish"} : EnterBus(t, op)
        \/ SubscribeFirst(t)
        \/ SubscribeSecond(t)
        \/ PublishCopy(t)
        \/ Invoke(t)
        \/ FunctionReturn(t)
        \/ PublishReturn(t)

SpecFault == InitBus /\ [][NextFault]_vars

\* ------------------------------------------------------------------------
\* SpecReq: the console sends schedule requests over the bus while the host
\* loop ticks
\* ------------------------------------------------------------------------
ScheduleRequests == {"MSG_0400", "MSG_0401", "MSG_0402", "MSG_0403", "MSG_0404"}

\* the console's schedule commands: each publishes its request
ScheduleCommands ==
    { [name |-> "prv_cmd_schedule_add", calls |-> << Publish("MSG_0400") >>],
      [name |-> "prv_cmd_schedule_remove", calls |-> << Publish("MSG_0401") >>],
      [name |-> "prv_cmd_schedule_list", calls |-> << Publish("MSG_0402") >>],
      [name |-> "prv_cmd_schedule_clear", calls |-> << Publish("MSG_0403") >>],
      [name |-> "prv_cmd_schedule_enable", calls |-> << Publish("MSG_0404") >>] }

\* the console after console_init and the host loop; the WiFi manager task
\* reports nothing
RequestFunctions(t) ==
    CASE t = "console" /\ started[t] > 0 ->
            IF started[t] <= MaxCommands THEN ScheduleCommands ELSE {}
      [] t = "wifi" -> {}
      [] OTHER -> NextFunctions(t)

NextReq ==
    \E t \in Tasks :
        \/ EnterOne(t, RequestFunctions(t))
        \/ \E op \in {"subscribe", "publish"} : EnterBus(t, op)
        \/ SubscribeFirst(t)
        \/ SubscribeSecond(t)
        \/ PublishCopy(t)
        \/ Invoke(t)
        \/ FunctionReturn(t)
        \/ PublishReturn(t)

SpecReq == InitBus /\ [][NextReq]_vars

\* ------------------------------------------------------------------------
\* SpecDup: the bus as setup() of main.cpp leaves it, with a module that
\* subscribes one handler twice to MSG_0002 and a publisher of MSG_0002; the
\* console runs its test command
\* ------------------------------------------------------------------------
listener_init_twice ==
    << Subscribe("MSG_0002", "listener"), Subscribe("MSG_0002", "listener") >>

publish_test == << Publish("MSG_0002") >>

DupSetup ==
    << [name |-> "wifimanager_init", calls |-> wifimanager_init],
       [name |-> "timesync_init", calls |-> timesync_init],
       [name |-> "listener_init_twice", calls |-> listener_init_twice] >>

DupFunctions(t) ==
    CASE t = "host" ->
            IF started[t] < Len(DupSetup) THEN {DupSetup[started[t] + 1]}
            ELSE IF started[t] < Len(DupSetup) + MaxTicks
            THEN {[name |-> "publish_test", calls |-> publish_test]}
            ELSE {}
      [] t = "console" ->
            IF ~Finished("host", Len(DupSetup)) THEN {}
            ELSE IF started[t] = 0
            THEN {[name |-> "console_init", calls |-> console_init]}
            ELSE IF started[t] <= MaxCommands
            THEN {[name |-> "prv_cmd_msgbroker_can_subscribe_and_publish",
                   calls |-> prv_cmd_msgbroker_can_subscribe_and_publish(run_once)]}
            ELSE {}
      [] t = "wifi" ->
            IF Finished("host", 1) /\ started[t] < MaxStatus
            THEN {[name |-> "prv_publish_connection_status",
                   calls |-> prv_publish_connection_status]}
            ELSE {}

NextDup ==
    \E t \in Tasks :
        \/ EnterOne(t, DupFunctions(t))
        \/ \E op \in {"subscribe", "publish"} : EnterBus(t, op)
        \/ SubscribeFirst(t)
        \/ SubscribeSecond(t)
        \/ PublishCopy(t)
        \/ Invoke(t)
        \/ FunctionReturn(t)
        \/ PublishReturn(t)

SpecDup == InitBus /\ [][NextDup]_vars

\* ------------------------------------------------------------------------
\* SpecRace: the console task delivers Add, Remove and Clear requests while
\* the host loop calls appcontrol_run.  Both tasks run the engine's handler
\* on the schedule array, which no lock guards: the steps of the two tasks
\* interleave between the writes of the Add handler and between the two
\* tests of the loop of prv_check_schedules
\* ------------------------------------------------------------------------
\* the fields of schedule_entry_t the Add handler writes
EntryFields == {"active", "hour", "minute", "song_index", "triggered", "last_checked_min"}

AddValue(cmd, field) ==
    CASE field = "active" -> TRUE
      [] field = "hour" -> cmd.hour
      [] field = "minute" -> cmd.minute
      [] field = "song_index" -> cmd.song_index
      [] field = "triggered" -> FALSE
      [] field = "last_checked_min" -> UNSET_MIN

WriteField(s, slot, field, value) == [s EXCEPT ![slot] = [@ EXCEPT ![field] = value]]

\* the writes that can reach memory next: the stores are plain stores to an
\* array another task reads, so the build may order them as it likes
NextWrites(todo) == todo

InEngine(t, op) == engine_pc[t].op = op

ConsoleFrame ==
    /\ evals' = 0
    /\ rearmed' = {}
    /\ UNCHANGED <<scheduling_enabled, time_valid, current_time, clock, history>>
    /\ UNCHANGED bus_vars

\* MSG_0400, up to the search for a free slot
AddBegin(cmd) ==
    /\ InEngine("console", "idle")
    /\ adds < MaxAdds
    /\ adds' = adds + 1
    /\ req' = [op |-> "add", cmd |-> cmd]
    /\ LET free_slot == AddSlot(schedules)
       IN  IF free_slot >= 0
           THEN /\ engine_pc' = [engine_pc EXCEPT !["console"] =
                                    [op |-> "add", cmd |-> cmd, free_slot |-> free_slot,
                                     todo |-> EntryFields]]
                /\ configured' = With(configured, free_slot, cmd)
                /\ out' = <<>>
           ELSE /\ out' = <<ScheduleResponse(FALSE, -1)>>
                /\ UNCHANGED <<engine_pc, configured>>
    /\ nvs_writes' = NoWrites
    /\ flash_at_publish' = preferences
    /\ UNCHANGED <<schedules, preferences>>
    /\ ConsoleFrame

\* MSG_0400: one of the six stores to schedules[free_slot]
AddWrite ==
    /\ InEngine("console", "add")
    /\ LET add == engine_pc["console"]
       IN  \E field \in NextWrites(add.todo) :
              /\ schedules' = WriteField(schedules, add.free_slot, field,
                                         AddValue(add.cmd, field))
              /\ engine_pc' = [engine_pc EXCEPT !["console"].todo = @ \ {field}]
    /\ out' = <<>>
    /\ nvs_writes' = NoWrites
    /\ flash_at_publish' = preferences
    /\ UNCHANGED <<preferences, req, adds, configured>>
    /\ ConsoleFrame

\* MSG_0400: the save and the response, after the stores
AddRespond ==
    /\ InEngine("console", "add")
    /\ engine_pc["console"].todo = {}
    /\ preferences' = prv_save_schedules_to_flash(schedules, preferences)
    /\ nvs_writes' = SaveWrites(schedules)
    /\ flash_at_publish' = AtPublish(preferences, preferences')
    /\ out' = <<ScheduleResponse(TRUE, engine_pc["console"].free_slot)>>
    /\ engine_pc' = [engine_pc EXCEPT !["console"] = Idle]
    /\ UNCHANGED <<schedules, req, adds, configured>>
    /\ ConsoleFrame

\* MSG_0401, delivered by the console task
RemoveNow(schedule_id) ==
    /\ InEngine("console", "idle")
    /\ req' = [op |-> "remove", schedule_id |-> schedule_id]
    /\ IF ValidScheduleId(schedule_id)
       THEN /\ schedules' = RemoveEntry(schedules, schedule_id)
            /\ preferences' = prv_save_schedules_to_flash(schedules', preferences)
            /\ nvs_writes' = SaveWrites(schedules')
            /\ out' = <<ScheduleResponse(TRUE, schedule_id)>>
            /\ configured' = Without(configured, {schedule_id})
       ELSE /\ out' = <<ScheduleResponse(FALSE, -1)>>
            /\ nvs_writes' = NoWrites
            /\ UNCHANGED <<schedules, preferences, configured>>
    /\ flash_at_publish' = AtPublish(preferences, preferences')
    /\ UNCHANGED <<engine_pc, adds>>
    /\ ConsoleFrame

\* MSG_0403, delivered by the console task
ClearNow ==
    /\ InEngine("console", "idle")
    /\ req' = [op |-> "clear"]
    /\ schedules' = ClearEntries(schedules)
    /\ preferences' = prv_save_schedules_to_flash(schedules', preferences)
    /\ nvs_writes' = SaveWrites(schedules')
    /\ flash_at_publish' = AtPublish(preferences, preferences')
    /\ out' = <<ScheduleResponse(TRUE, -1)>>
    /\ configured' = Without(configured, Slots)
    /\ UNCHANGED <<engine_pc, adds>>
    /\ ConsoleFrame

HostFrame ==
    /\ nvs_writes' = NoWrites
    /\ rearmed' = {}
    /\ flash_at_publish' = preferences
    /\ UNCHANGED <<scheduling_enabled, preferences, adds, history, configured>>
    /\ UNCHANGED bus_vars

\* appcontrol_run on the host loop: the time request, a valid response, and
\* the entry into prv_check_schedules
RunSample(times) ==
    /\ InEngine("host", "idle")
    /\ scheduling_enabled
    /\ \E t \in {u \in times : Stamp(u) >= Stamp(clock)} :
          /\ current_time' = t
          /\ clock' = t
    /\ time_valid' = TRUE
    /\ req' = [op |-> "run"]
    /\ out' = <<TimeRequest>>
    /\ evals' = 1
    /\ engine_pc' = [engine_pc EXCEPT !["host"] =
                         [op |-> "check", i |-> 0, phase |-> "reset",
                          at_sample |-> configured]]
    /\ UNCHANGED schedules
    /\ HostFrame

\* the first active slot from i on, MAX_SCHEDULES when there is none
RECURSIVE NextActiveFrom(_, _)
NextActiveFrom(s, i) ==
    IF i >= MAX_SCHEDULES THEN MAX_SCHEDULES
    ELSE IF s[i].active THEN i
    ELSE NextActiveFrom(s, i + 1)

\* the loop of prv_check_schedules from slot i on: the inactive slots are
\* passed, and at the first active slot the reset on a minute change is made
CheckReset ==
    /\ InEngine("host", "check")
    /\ engine_pc["host"].phase = "reset"
    /\ LET i == NextActiveFrom(schedules, engine_pc["host"].i)
       IN  IF i >= MAX_SCHEDULES
           THEN /\ engine_pc' = [engine_pc EXCEPT !["host"] = Idle]
                /\ UNCHANGED schedules
           ELSE /\ schedules' = [schedules EXCEPT ![i] =
                                   ResetOnMinuteChange(@, current_time.min % 256)]
                /\ engine_pc' = [engine_pc EXCEPT !["host"].i = i,
                                                  !["host"].phase = "match"]
    /\ out' = <<>>
    /\ evals' = 0
    /\ UNCHANGED <<time_valid, current_time, clock, req>>
    /\ HostFrame

\* the loop at slot i: the test of the time, the Play and the trigger flag
CheckMatch ==
    /\ InEngine("host", "check")
    /\ engine_pc["host"].phase = "match"
    /\ LET i == engine_pc["host"].i
       IN  /\ IF ShouldTrigger(schedules[i], current_time.hour % 256,
                               current_time.min % 256)
              THEN /\ out' = <<prv_play_song(schedules[i].song_index)>>
                   /\ schedules' = [schedules EXCEPT ![i] = MarkTriggered(@)]
              ELSE /\ out' = <<>>
                   /\ UNCHANGED schedules
           /\ engine_pc' = [engine_pc EXCEPT !["host"].i = i + 1,
                                             !["host"].phase = "reset"]
    /\ evals' = 0
    /\ UNCHANGED <<time_valid, current_time, clock, req>>
    /\ HostFrame

\* the minutes of the day the device boots on
RaceTimes == {t \in Times : t.day = 0}

NextRace ==
    \/ \E cmd \in AddInputs : AddBegin(cmd)
    \/ AddWrite
    \/ AddRespond
    \/ \E schedule_id \in RemoveIds : RemoveNow(schedule_id)
    \/ ClearNow
    \/ RunSample(RaceTimes)
    \/ CheckReset
    \/ CheckMatch

SpecRace == Init /\ [][NextRace]_vars

\* ------------------------------------------------------------------------
\* SpecNest: the evaluation statement by statement, with a subscriber of the
\* Play (or of the MP3 response it causes) that requests a time sample from
\* within its handler: the response reaches the engine's handler while the
\* Play is still being dispatched
\* ------------------------------------------------------------------------
\* evaluations that can be nested in the dispatch of a Play
MaxNest == 1

\* the evaluation a handler call of MSG_0101 starts, inside the frame outer
CheckFrame(outer, depth) ==
    [op |-> "check", i |-> 0, phase |-> "reset", outer |-> outer, depth |-> depth]

\* the tick of the host loop: the time request, a valid response, and the
\* entry into prv_check_schedules
EvalBegin(times) ==
    /\ InEngine("host", "idle")
    /\ scheduling_enabled
    /\ \E t \in {u \in times : Stamp(u) >= Stamp(clock)} :
          /\ current_time' = t
          /\ clock' = t
    /\ time_valid' = TRUE
    /\ req' = [op |-> "run"]
    /\ out' = <<TimeRequest>>
    /\ evals' = 1
    /\ engine_pc' = [engine_pc EXCEPT !["host"] = CheckFrame(Idle, 0)]
    /\ UNCHANGED schedules
    /\ HostFrame

\* the loop from slot i on: the inactive slots are passed, and at the first
\* active slot the reset on a minute change is made; behind the last slot
\* the evaluation returns into the dispatch it was called from
EvalReset ==
    /\ InEngine("host", "check")
    /\ engine_pc["host"].phase = "reset"
    /\ LET i == NextActiveFrom(schedules, engine_pc["host"].i)
       IN  IF i >= MAX_SCHEDULES
           THEN /\ engine_pc' = [engine_pc EXCEPT !["host"] = engine_pc["host"].outer]
                /\ UNCHANGED schedules
           ELSE /\ schedules' = [schedules EXCEPT ![i] =
                                   ResetOnMinuteChange(@, current_time.min % 256)]
                /\ engine_pc' = [engine_pc EXCEPT !["host"].i = i,
                                                  !["host"].phase = "match"]
    /\ out' = <<>>
    /\ evals' = 0
    /\ UNCHANGED <<time_valid, current_time, clock, req>>
    /\ HostFrame

\* the loop at slot i: the test of the time, and the call of prv_play_song,
\* whose publish dispatches the Play
EvalPlay ==
    /\ InEngine("host", "check")
    /\ engine_pc["host"].phase = "match"
    /\ LET i == engine_pc["host"].i
       IN  IF ShouldTrigger(schedules[i], current_time.hour % 256,
                            current_time.min % 256)
           THEN /\ out' = <<prv_play_song(schedules[i].song_index)>>
                /\ engine_pc' = [engine_pc EXCEPT !["host"].phase = "dispatch"]
           ELSE /\ out' = <<>>
                /\ engine_pc' = [engine_pc EXCEPT !["host"].i = i + 1,
                                                  !["host"].phase = "reset"]
    /\ evals' = 0
    /\ UNCHANGED <<schedules, time_valid, current_time, clock, req>>
    /\ HostFrame

\* a handler of the dispatch publishes a time request; the time adapter's
\* valid response is handled by the engine inside that publish
Reenter(times) ==
    /\ InEngine("host", "check")
    /\ engine_pc["host"].phase = "dispatch"
    /\ engine_pc["host"].depth < MaxNest
    /\ \E t \in {u \in times : Stamp(u) >= Stamp(clock)} :
          /\ current_time' = t
          /\ clock' = t
    /\ time_valid' = TRUE
    /\ req' = [op |-> "time"]
    /\ out' = <<>>
    /\ evals' = 1
    /\ engine_pc' = [engine_pc EXCEPT !["host"] =
                         CheckFrame(engine_pc["host"], engine_pc["host"].depth + 1)]
    /\ UNCHANGED schedules
    /\ HostFrame

\* the publish of the Play has returned: schedules[i].triggered = true
EvalMark ==
    /\ InEngine("host", "check")
    /\ engine_pc["host"].phase = "dispatch"
    /\ LET i == engine_pc["host"].i
       IN  /\ schedules' = [schedules EXCEPT ![i] = MarkTriggered(@)]
           /\ engine_pc' = [engine_pc EXCEPT !["host"].i = i + 1,
                                             !["host"].phase = "reset"]
    /\ out' = <<>>
    /\ evals' = 0
    /\ UNCHANGED <<time_valid, current_time, clock, req>>
    /\ HostFrame

\* the schedule requests arrive between the ticks
BetweenTicks(request) == InEngine("host", "idle") /\ request

NextNest ==
    \/ EvalBegin(RaceTimes)
    \/ EvalReset
    \/ EvalPlay
    \/ Reenter(RaceTimes)
    \/ EvalMark
    \/ \E cmd \in AddInputs : BetweenTicks(AddSchedule(cmd))
    \/ \E schedule_id \in RemoveIds : BetweenTicks(RemoveSchedule(schedule_id))

SpecNest == Init /\ [][NextNest]_vars

\* ------------------------------------------------------------------------
\* SpecCrash: the save write by write (putInt of the count, then one
\* putBytes per active slot), with a restart of the device between two
\* writes
\* ------------------------------------------------------------------------
\* the requests arrive when no handler runs
Settled == engine_pc["console"].op \in {"idle", "recovered"}

\* putInt(NVS_KEY_SCHEDULE_COUNT, active_count)
PutCount(store, s) == [store EXCEPT !.cnt = [present |-> TRUE, value |-> ActiveCount(s)]]

\* putBytes of the k-th active slot under save_index k
PutRecord(store, s, k) ==
    LET i == ActiveFrom(s, 0)[k + 1]
    IN  [store EXCEPT !.recs =
            [j \in DOMAIN store.recs \cup {k} |->
                IF j = k THEN StorageRecord(s[i], i) ELSE store.recs[j]]]

\* a handler has changed the array to after and enters the save: the count is
\* written
SaveBegin(request, after, response) ==
    /\ Settled
    /\ req' = request
    /\ schedules' = after
    /\ preferences' = PutCount(preferences, after)
    /\ nvs_writes' = [count_key |-> TRUE, record_keys |-> {}]
    /\ engine_pc' = [engine_pc EXCEPT !["console"] =
                         [op |-> "save", k |-> 0, before |-> schedules,
                          response |-> response]]
    /\ configured' = Configured(after)
    /\ out' = <<>>
    /\ flash_at_publish' = preferences
    /\ ConsoleFrame

\* MSG_0400 with a free slot, MSG_0401 with a valid id, MSG_0403
SaveRequest ==
    \/ \E cmd \in AddInputs :
          /\ adds < MaxAdds
          /\ adds' = adds + 1
          /\ AddSlot(schedules) >= 0
          /\ SaveBegin([op |-> "add", cmd |-> cmd],
                       AddEntry(schedules, AddSlot(schedules), cmd),
                       ScheduleResponse(TRUE, AddSlot(schedules)))
    \/ \E schedule_id \in RemoveIds :
          /\ ValidScheduleId(schedule_id)
          /\ UNCHANGED adds
          /\ SaveBegin([op |-> "remove", schedule_id |-> schedule_id],
                       RemoveEntry(schedules, schedule_id),
                       ScheduleResponse(TRUE, schedule_id))
    \/ /\ UNCHANGED adds
       /\ SaveBegin([op |-> "clear"], ClearEntries(schedules), ScheduleResponse(TRUE, -1))

\* the second loop of the save: the next putBytes
SaveRecord ==
    /\ InEngine("console", "save")
    /\ engine_pc["console"].k < ActiveCount(schedules)
    /\ preferences' = PutRecord(preferences, schedules, engine_pc["console"].k)
    /\ nvs_writes' = [count_key |-> FALSE, record_keys |-> {engine_pc["console"].k}]
    /\ engine_pc' = [engine_pc EXCEPT !["console"].k = @ + 1]
    /\ out' = <<>>
    /\ flash_at_publish' = preferences
    /\ UNCHANGED <<schedules, req, adds, configured>>
    /\ ConsoleFrame

\* the save is complete: the handler publishes its response
SaveEnd ==
    /\ InEngine("console", "save")
    /\ engine_pc["console"].k >= ActiveCount(schedules)
    /\ out' = <<engine_pc["console"].response>>
    /\ engine_pc' = [engine_pc EXCEPT !["console"] = Idle]
    /\ nvs_writes' = NoWrites
    /\ flash_at_publish' = preferences
    /\ UNCHANGED <<schedules, preferences, req, adds, configured>>
    /\ ConsoleFrame

\* the device restarts inside the save: appcontrol_init loads what the store
\* holds
Crash ==
    /\ InEngine("console", "save")
    /\ req' = [op |-> "crash"]
    /\ schedules' = appcontrol_init(preferences, {})
    /\ engine_pc' = [engine_pc EXCEPT !["console"] =
                         [op |-> "recovered", before |-> engine_pc["console"].before,
                          after |-> schedules]]
    /\ configured' = Configured(schedules')
    /\ out' = <<>>
    /\ nvs_writes' = NoWrites
    /\ flash_at_publish' = preferences
    /\ evals' = 0
    /\ rearmed' = {}
    /\ scheduling_enabled' = TRUE
    /\ time_valid' = FALSE
    /\ current_time' = ZeroTime
    /\ UNCHANGED <<preferences, clock, history, adds>>
    /\ UNCHANGED bus_vars

NextCrash ==
    \/ SaveRequest
    \/ SaveRecord
    \/ SaveEnd
    \/ Crash

SpecCrash == Init /\ [][NextCrash]_vars

\* ------------------------------------------------------------------------
\* SpecToggle: a host loop that ticks more than once a minute and a time
\* adapter whose time stays valid, so that the engine misses a minute only
\* while scheduling is disabled
\* ------------------------------------------------------------------------
\* the minute the wall clock shows and, when the engine has sampled that
\* minute, the one after it
NowOrNext ==
    {t \in Times : \/ t = clock
                   \/ /\ current_time = clock
                      /\ Stamp(t) > Stamp(clock)
                      /\ \A u \in Times : Stamp(u) > Stamp(clock) => Stamp(t) <= Stamp(u)}

\* scheduling is disabled and appcontrol_run returns at once: the wall clock
\* moves on and no sample is requested
TimePasses ==
    /\ ~scheduling_enabled
    /\ \E t \in Times :
          /\ Stamp(t) > Stamp(clock)
          /\ clock' = t
    /\ req' = [op |-> "run"]
    /\ out' = <<>>
    /\ evals' = 0
    /\ rearmed' = {}
    /\ nvs_writes' = NoWrites
    /\ flash_at_publish' = preferences
    /\ minPlays' = NoPlays
    /\ UNCHANGED <<engine, runMin, runPlays, runMatched, removed, adds>>
    /\ UNCHANGED <<bus_vars, race_vars>>

NextToggle ==
    \/ scheduling_enabled /\ appcontrol_run(NowOrNext)
    \/ TimePasses
    \/ \E enabled \in BOOLEAN : SetEnabled(enabled)
    \/ ListSchedules
    \/ \E cmd \in AddInputs : AddSchedule(cmd)
    \/ \E schedule_id \in RemoveIds : RemoveSchedule(schedule_id)

SpecToggle == Init /\ [][NextToggle]_vars

\* ------------------------------------------------------------------------
\* SpecTime: the host loop and the console on the bus, with the body of the
\* time adapter's MSG_0100 handler: it reads the clock, builds the response
\* and publishes it
\* ------------------------------------------------------------------------
\* time(&now) as the handler may find it: a clock never set, a date of 2008,
\* a date of 2027
ClockReadings == {5, 1200000000, 1800000000}

\* getLocalTime(&response.timeinfo): the result and the broken-down time it
\* wrote to its argument, also when it fails
LocalTimes ==
    {[ok |-> ok, timeinfo |-> [day |-> 1, hour |-> 7, min |-> 30]] : ok \in BOOLEAN}

\* timesync_get_timestamp: the clock when it shows a time after 2001, else 0
timesync_get_timestamp(now) == IF now > 1000000000 THEN now ELSE 0

\* timesync_get_time: the result of getLocalTime
timesync_get_time(local) == local.ok

\* a response that is sent as the clock and getLocalTime left it
TimeGetResponseAsRead(now, local) ==
    [msg_id |-> "MSG_0101", timestamp |-> timesync_get_timestamp(now),
     time_valid |-> timesync_get_time(local), timeinfo |-> local.timeinfo]

\* msg_time_get_response_t as the MSG_0100 handler fills it: without a valid
\* time the timestamp is set to 0 and the broken-down time is zeroed
TimeGetResponse(now, local) ==
    [msg_id |-> "MSG_0101",
     timestamp |-> IF timesync_get_time(local) THEN timesync_get_timestamp(now) ELSE 0,
     time_valid |-> timesync_get_time(local),
     timeinfo |-> TimeSyncResponse(timesync_get_time(local), local.timeinfo).timeinfo]

\* the request the response in out was built for
Answered(t) == req.op = "MSG_0100" /\ req.task = t /\ req.tick = started[t]

\* t runs the adapter's MSG_0100 handler, which has not published yet
InTimeHandler(t) ==
    /\ Running(t, "function")
    /\ Top(t).name = "timesync"
    /\ Top(t).topic = "MSG_0100"
    /\ Top(t).calls # <<>>

\* the statements of the MSG_0100 handler before its publish call: out holds
\* the response it is about to publish
FillTimeResponse(t) ==
    /\ Runnable(t)
    /\ InTimeHandler(t)
    /\ ~Answered(t)
    /\ \E now \in ClockReadings, local \in LocalTimes :
          /\ req' = [op |-> "MSG_0100", task |-> t, tick |-> started[t],
                     now |-> now, local |-> local]
          /\ out' = << TimeGetResponse(now, local) >>
    /\ UNCHANGED <<engine, clock, nvs_writes, flash_at_publish, evals, history,
                   adds, rearmed>>
    /\ UNCHANGED <<bus_vars, race_vars>>

\* a bus call of a function; the MSG_0100 handler has filled its response
\* before it calls publish
CallBus(t, op) == (InTimeHandler(t) => Answered(t)) /\ EnterBus(t, op)

NextTime ==
    \E t \in Tasks :
        \/ EnterOne(t, RequestFunctions(t))
        \/ FillTimeResponse(t)
        \/ \E op \in {"subscribe", "publish"} : CallBus(t, op)
        \/ SubscribeFirst(t)
        \/ SubscribeSecond(t)
        \/ PublishCopy(t)
        \/ Invoke(t)
        \/ FunctionReturn(t)
        \/ PublishReturn(t)

SpecTime == InitBus /\ [][NextTime]_vars

\* ------------------------------------------------------------------------
\* Properties
\* ------------------------------------------------------------------------
PublishedIds == {out[k].msg_id : k \in 1 .. Len(out)}

Sampled == req.op \in {"run", "time"} /\ evals = 1

\* the entry in slot i matches the hour and minute of the sample t
EntryMatches(i, t) ==
    schedules[i].active /\ schedules[i].hour = t.hour /\ schedules[i].minute = t.min

\* C1: within a run of consecutive valid samples that report the same minute
\* an active entry publishes at most one Play, and it has published it as soon
\* as one sample of the run carried the entry's hour and minute.
C1_OnePlayPerRun ==
    \A i \in Slots :
        schedules[i].active =>
            Plays(runPlays, i) = (IF i \in runMatched THEN 1 ELSE 0)

\* a second sample of the same matching minute was evaluated, and the entry
\* that played on the first one kept silent
C1_Witness ==
    /\ Sampled
    /\ "MSG_0302" \notin PublishedIds
    /\ \E i \in Slots : EntryMatches(i, current_time) /\ Plays(runPlays, i) = 1

\* C2: in every calendar minute in which a valid sample with an active entry's
\* hour and minute is delivered, exactly one Play of that entry is published,
\* whatever samples or gaps came before.
C2_ExactlyOncePerCalendarMinute ==
    Sampled =>
        \A i \in Slots : EntryMatches(i, clock) => Plays(minPlays, i) = 1

\* C3: while the scheduling flag is disabled the engine publishes no time
\* request, evaluates no entry and publishes no Play, whatever is delivered.
C3_SilentWhileDisabled ==
    ~scheduling_enabled =>
        /\ evals = 0
        /\ PublishedIds \cap {"MSG_0100", "MSG_0302"} = {}

FreeSlots(s) == Slots \ ActiveSlots(s)

LowestFree(s) == CHOOSE i \in FreeSlots(s) : \A j \in FreeSlots(s) : i <= j

Failure == [msg_id |-> "MSG_0405", success |-> FALSE, schedule_id |-> -1]

Success(schedule_id) ==
    [msg_id |-> "MSG_0405", success |-> TRUE, schedule_id |-> schedule_id]

\* C4: an Add request that finds all 20 slots active is answered with
\* success = false and schedule_id = -1, and a List that follows reports
\* exactly 20 entries.
C4_AddWhenFullFails ==
    [][(req'.op = "add" /\ ActiveSlots(schedules) = Slots) =>
          /\ out' = <<Failure>>
          /\ ScheduleList(schedules').count = 20
          /\ Len(ScheduleList(schedules').schedules) = 20]_vars

C4_Witness ==
    /\ req.op = "add"
    /\ out = <<Failure>>
    /\ Cardinality(ActiveSlots(schedules)) = 20

\* C5: an Add request that finds no free slot changes no field of any slot
\* and writes no key of the store.
C5_AddWhenFullChangesNothing ==
    [][(req'.op = "add" /\ FreeSlots(schedules) = {}) =>
          /\ schedules' = schedules
          /\ preferences' = preferences
          /\ nvs_writes' = NoWrites]_vars

C5_Witness ==
    /\ req.op = "add"
    /\ out[1].success = FALSE
    /\ nvs_writes = NoWrites
    /\ preferences = FullStore
    /\ \A i \in Slots : schedules[i].song_index = i + 1

\* C6: a successful Add(hour, minute, song_index) occupies the lowest slot
\* that was free, sets it active with the given fields, triggered = false and
\* last_checked_min = 255, leaves every other slot as it was, and answers
\* success with that slot as identity.
C6_AddTakesLowestFreeSlot ==
    [][(req'.op = "add" /\ FreeSlots(schedules) # {}) =>
          /\ schedules' =
                [schedules EXCEPT ![LowestFree(schedules)] =
                    [active |-> TRUE, hour |-> req'.cmd.hour,
                     minute |-> req'.cmd.minute,
                     song_index |-> req'.cmd.song_index,
                     triggered |-> FALSE, last_checked_min |-> 255]]
          /\ out' = <<Success(LowestFree(schedules))>>]_vars

\* slots 0 and 19 were free, the Add went to slot 0 and slot 19 stayed free
C6_Witness ==
    /\ req.op = "add"
    /\ out = <<Success(0)>>
    /\ schedules[0].active /\ schedules[0].song_index = req.cmd.song_index
    /\ ~schedules[MAX_SCHEDULES - 1].active
    /\ schedules[1].active

\* the store holds the active set of s: the count, and under the ordinals
\* below it the active entries in ascending slot order
StoreMirrors(store, s) ==
    /\ store.cnt.present
    /\ store.cnt.value = Cardinality(ActiveSlots(s))
    /\ \A i \in ActiveSlots(s) :
          LET k == Cardinality({j \in ActiveSlots(s) : j < i})
          IN  /\ k \in DOMAIN store.recs
              /\ store.recs[k] =
                    [len |-> 8, hour |-> s[i].hour, minute |-> s[i].minute,
                     song_index |-> s[i].song_index, original_id |-> i]

\* C7: Remove(identity) with identity in 0..19 makes that slot inactive,
\* saves the active set and answers success with that identity, also when the
\* slot was inactive already; no other slot's active flag changes.
C7_RemoveInRange ==
    [][(req'.op = "remove" /\ req'.schedule_id \in 0 .. 19) =>
          /\ ~schedules'[req'.schedule_id].active
          /\ \A j \in Slots \ {req'.schedule_id} :
                schedules'[j].active = schedules[j].active
          /\ nvs_writes'.count_key
          /\ StoreMirrors(preferences', schedules')
          /\ out' = <<Success(req'.schedule_id)>>]_vars

\* Remove(0) answered success although no Remove had named an active entry in
\* slot 0: the slot was empty already (emptied by Clear)
C7_Witness ==
    /\ req.op = "remove" /\ req.schedule_id = 0
    /\ out = <<Success(0)>>
    /\ 0 \notin removed
    /\ preferences.cnt.value = Cardinality(ActiveSlots(schedules))

\* C8: Remove(identity) with identity below 0 or at least 20 answers failure
\* with schedule_id = -1, changes no slot and writes no key of the store.
C8_RemoveOutOfRange ==
    [][(req'.op = "remove" /\ (req'.schedule_id < 0 \/ req'.schedule_id >= 20)) =>
          /\ out' = <<Failure>>
          /\ schedules' = schedules
          /\ preferences' = preferences
          /\ nvs_writes' = NoWrites]_vars

C8_Witness ==
    /\ req.op = "remove" /\ req.schedule_id \in {-1, 20}
    /\ out = <<Failure>>
    /\ ActiveSlots(schedules) # {}
    /\ nvs_writes = NoWrites

ListedIds(list) == {list.schedules[k].schedule_id : k \in 1 .. Len(list.schedules)}

\* C9: after Remove(i) of an entry, a List response does not contain identity
\* i, and the next Add occupies slot i whenever every slot below i is active.
C9_RemovedSlotIsReused ==
    [][/\ req'.op = "list" => ListedIds(out'[1]) \cap removed = {}
       /\ req'.op = "add" =>
             \A i \in removed :
                 (\A j \in Slots : j < i => schedules[j].active) =>
                     /\ out' = <<Success(i)>>
                     /\ schedules'[i].active
                     /\ schedules'[i].song_index = req'.cmd.song_index]_vars

\* slots 0 and 19 were removed; the Add reused slot 0, slot 19 is still free
C9_Witness ==
    /\ req.op = "add"
    /\ out = <<Success(0)>>
    /\ removed = {MAX_SCHEDULES - 1}
    /\ ~schedules[MAX_SCHEDULES - 1].active

\* C10: a List request is answered with exactly the active entries: count is
\* the number of active slots (at most 20), the entries are in strictly
\* ascending slot order, each with its slot index, hour, minute and song
\* index as stored; no inactive slot appears.
C10_ListIsTheActiveSet ==
    req.op = "list" =>
        /\ Len(out) = 1
        /\ out[1].msg_id = "MSG_0406"
        /\ out[1].count = Cardinality(ActiveSlots(schedules))
        /\ out[1].count <= 20
        /\ Len(out[1].schedules) = out[1].count
        /\ ListedIds(out[1]) = ActiveSlots(schedules)
        /\ \A k \in 1 .. Len(out[1].schedules) :
              LET info == out[1].schedules[k]
              IN  /\ k > 1 => out[1].schedules[k - 1].schedule_id < info.schedule_id
                  /\ info.hour = schedules[info.schedule_id].hour
                  /\ info.minute = schedules[info.schedule_id].minute
                  /\ info.song_index = schedules[info.schedule_id].song_index

\* 19 entries are listed; the slot left out still holds the fields of the
\* entry that was removed from it
C10_Witness ==
    /\ req.op = "list"
    /\ out[1].count = 19
    /\ \E i \in Slots : ~schedules[i].active /\ schedules[i].hour = 7
    /\ \E k \in 1 .. 19 : out[1].schedules[k].song_index = 9

\* C11: Clear makes every slot inactive, writes the count 0 and no record,
\* and answers success; a restart that follows it directly loads no entry,
\* whatever records earlier saves left under the record keys.
C11_ClearThenRestartIsEmpty ==
    [][/\ req'.op = "clear" =>
             /\ ActiveSlots(schedules') = {}
             /\ preferences'.cnt = [present |-> TRUE, value |-> 0]
             /\ preferences'.recs = preferences.recs
             /\ nvs_writes' = [count_key |-> TRUE, record_keys |-> {}]
             /\ Len(out') = 1 /\ out'[1].msg_id = "MSG_0405" /\ out'[1].success
       /\ (req.op = "clear" /\ req'.op = "restart") =>
             ActiveSlots(schedules') = {}]_vars

\* the device restarted on a store whose count is 0 while all 20 record keys
\* of an earlier save are still there
C11_Witness ==
    /\ req.op = "restart"
    /\ preferences.cnt = [present |-> TRUE, value |-> 0]
    /\ DOMAIN preferences.recs = 0 .. 19
    /\ \A k \in 0 .. 19 : preferences.recs[k].len = 8
    /\ ActiveSlots(schedules) = {}

\* C12: save followed by load is a round trip: a restart restores exactly the
\* entries that were active, each in the slot it had, with its hour, minute
\* and song index, with triggered = false and last_checked_min = 255.
C12_SaveLoadRoundTrip ==
    [][req'.op = "restart" =>
          \A i \in Slots :
              /\ schedules'[i].active = schedules[i].active
              /\ schedules[i].active =>
                    schedules'[i] =
                        [active |-> TRUE, hour |-> schedules[i].hour,
                         minute |-> schedules[i].minute,
                         song_index |-> schedules[i].song_index,
                         triggered |-> FALSE, last_checked_min |-> 255]]_vars

\* slot 0 was removed: the entry of slot 1 was saved under ordinal 0 and the
\* restart restored it to slot 1, leaving slot 0 free
C12_Witness ==
    /\ req.op = "restart"
    /\ ~schedules[0].active
    /\ schedules[1].active /\ schedules[1].song_index = 2
    /\ preferences.cnt.value = 19
    /\ preferences.recs[0].original_id = 1

\* C13: when the response to an Add, Remove or Clear request is published,
\* the store already mirrors the array: the stored count is the number of
\* active slots and the records under the ordinals below it are the active
\* entries in ascending slot order, each with its hour, minute, song index
\* and slot.
C13_StoreMirrorsAtResponse ==
    req.op \in {"add", "remove", "clear"} =>
        /\ Len(out) = 1 /\ out[1].msg_id = "MSG_0405"
        /\ StoreMirrors(flash_at_publish, schedules)

\* Remove(19) was answered after slot 0 had been removed: the response found
\* 18 records, the first one of slot 1, and the stale nineteenth still there
C13_Witness ==
    /\ req.op = "remove" /\ out = <<Success(19)>>
    /\ flash_at_publish.cnt.value = 18
    /\ flash_at_publish.recs[0].original_id = 1
    /\ flash_at_publish.recs[18].original_id = 19
    /\ ActiveSlots(schedules) = 1 .. 18

\* C14: every active entry has hour < 24 and minute < 60, whatever Add
\* requests are published on the bus and whatever records the load reads.
C14_ActiveEntriesHoldClockTimes ==
    \A i \in Slots :
        schedules[i].active => schedules[i].hour < 24 /\ schedules[i].minute < 60

\* C15: for every active entry, triggered is true only if last_checked_min
\* is the minute of the valid time sample delivered last, and that minute is
\* then the entry's configured minute.
C15_TriggeredOnlyInSampledMinute ==
    \A i \in Slots :
        (schedules[i].active /\ schedules[i].triggered) =>
            /\ runMin # UNSET_MIN
            /\ schedules[i].last_checked_min = runMin
            /\ schedules[i].last_checked_min = current_time.min
            /\ schedules[i].last_checked_min = schedules[i].minute

\* an Add was answered while the entry of slot 0 was triggered: the new
\* entry is not, and has no checked minute yet
C15_Witness ==
    /\ req.op = "add"
    /\ schedules[0].active /\ schedules[0].triggered
    /\ schedules[0].last_checked_min = 30
    /\ schedules[1].active /\ ~schedules[1].triggered
    /\ schedules[1].last_checked_min = UNSET_MIN

\* the slot the load shall restore a record with the given original slot
\* to, in the array s: that slot when it is one of the 20 and free, else the
\* lowest free slot
SlotFor(s, original_id) ==
    IF original_id \in Slots /\ ~s[original_id].active THEN original_id
    ELSE LowestFree(s)

\* the array after the complete records of the store, taken in the order of
\* their ordinals from k on, are restored that way
RECURSIVE Restored(_, _, _)
Restored(s, store, k) ==
    IF k >= MAX_SCHEDULES THEN s
    ELSE IF k \in LoadedOrdinals(store)
    THEN Restored([s EXCEPT ![SlotFor(s, store.recs[k].original_id)] =
                       [active |-> TRUE, hour |-> store.recs[k].hour,
                        minute |-> store.recs[k].minute,
                        song_index |-> store.recs[k].song_index,
                        triggered |-> FALSE, last_checked_min |-> 255]],
                  store, k + 1)
    ELSE Restored(s, store, k + 1)

\* C16: the load restores each record to its original slot, or to the lowest
\* free slot when that index is not in 0..19 or the slot is occupied by an
\* earlier record of the pass, and it reads and writes no slot outside the
\* array.
C16_LoadStaysInsideTheArray ==
    req.op \in {"init", "restart"} =>
        /\ LoadReads(preferences) \subseteq Slots
        /\ schedules = Restored(InitSchedules, preferences, 0)

\* the complete records one load pass reads, from ordinal k on, in order
RECURSIVE CompleteFrom(_, _)
CompleteFrom(store, k) ==
    IF k >= MAX_SCHEDULES THEN <<>>
    ELSE IF k \in LoadedOrdinals(store)
    THEN <<store.recs[k]>> \o CompleteFrom(store, k + 1)
    ELSE CompleteFrom(store, k + 1)

RECURSIVE RestoreAll(_, _, _)
RestoreAll(s, recs, stray) ==
    IF recs = <<>> THEN s
    ELSE RestoreAll(RestoreRecord(s, Head(recs), stray), Tail(recs), stray)

\* C17: on load a record that is missing or whose length is not the record
\* size is skipped as a whole: the array is the one the complete records
\* alone yield, every active entry carries the fields of a complete record
\* and every other slot is as the initialisation left it.
C17_BadRecordsAreSkippedWhole ==
    req.op \in {"init", "restart"} =>
        /\ \E stray \in SUBSET StrayIndexes :
              schedules = RestoreAll(InitSchedules, CompleteFrom(preferences, 0), stray)
        /\ \A i \in Slots :
              IF schedules[i].active
              THEN \E k \in LoadedOrdinals(preferences) :
                      /\ schedules[i].hour = preferences.recs[k].hour
                      /\ schedules[i].minute = preferences.recs[k].minute
                      /\ schedules[i].song_index = preferences.recs[k].song_index
              ELSE schedules[i] = InitEntry

\* a restart loaded the store whose first record is cut short and whose
\* second is missing: the third and fourth were restored
C17_Witness ==
    /\ req.op = "restart"
    /\ preferences.cnt.value = 4
    /\ preferences.recs[0].len = 4
    /\ 1 \notin DOMAIN preferences.recs
    /\ ActiveSlots(schedules) = {2, 3}
    /\ schedules[2].song_index = 5 /\ schedules[3].song_index = 6

\* the publish calls in progress, on any task at any depth, that dispatch
Dispatching ==
    {f \in UNION {{stacks[t][k] : k \in 1 .. Len(stacks[t])} : t \in Tasks} :
        f.kind = "publish" /\ f.phase = "dispatch"}

\* C18: one publish on a topic invokes the handlers subscribed to that topic,
\* in the order of their subscribe calls, each once, and no other handler; a
\* publish on the logging topic MSG_0003 invokes the handlers of the WiFi
\* manager, the time adapter and the engine, in the order of their inits.
C18_DispatchInRegistrationOrder ==
    /\ \A f \in Dispatching : f.invoked = SubSeq(f.reg, 1, f.next - 1)
    /\ \A t \in Tasks :
          /\ delivered[t].invoked = delivered[t].reg
          /\ delivered[t].topic = "MSG_0003" =>
                delivered[t].invoked = <<"wifimanager", "timesync", "appcontrol">>

\* the console's logging command returned: its publish called the three
\* handlers of MSG_0003 and none of the console's callbacks
C18_Witness ==
    /\ stacks["console"] = <<>>
    /\ delivered["console"].topic = "MSG_0003"
    /\ delivered["console"].invoked = <<"wifimanager", "timesync", "appcontrol">>
    /\ log["console"] =
          << Event("call", "wifimanager", "MSG_0003", 1),
             Event("exit", "wifimanager", "MSG_0003", 1),
             Event("call", "timesync", "MSG_0003", 1),
             Event("exit", "timesync", "MSG_0003", 1),
             Event("call", "appcontrol", "MSG_0003", 1),
             Event("exit", "appcontrol", "MSG_0003", 1),
             Event("returned", "publish", "MSG_0003", 1) >>

\* the calls and returns of one Play that is dispatched depth-first:
\* the MP3 handler, its response, the console's callback when subscribed
PlayDispatch(console_subscribed) ==
    << Event("call", "mp3player", "MSG_0302", 3) >>
      \o (IF console_subscribed
          THEN << Event("call", "prv_mp3_callback", "MSG_0308", 4),
                  Event("exit", "prv_mp3_callback", "MSG_0308", 4) >>
          ELSE <<>>)
      \o << Event("returned", "publish", "MSG_0308", 4),
            Event("exit", "mp3player", "MSG_0302", 3),
            Event("returned", "publish", "MSG_0302", 3) >>

RECURSIVE PlayDispatches(_)
PlayDispatches(subscribed) ==
    IF subscribed = <<>> THEN <<>>
    ELSE PlayDispatch(Head(subscribed)) \o PlayDispatches(Tail(subscribed))

\* one tick dispatched depth-first, with the given dispatches of its Plays
TickDispatch(plays) ==
    << Event("call", "timesync", "MSG_0100", 1),
       Event("call", "appcontrol", "MSG_0101", 2) >>
      \o plays
      \o << Event("exit", "appcontrol", "MSG_0101", 2),
            Event("returned", "publish", "MSG_0101", 2),
            Event("exit", "timesync", "MSG_0100", 1),
            Event("returned", "publish", "MSG_0100", 1) >>

TickDispatches ==
    {TickDispatch(PlayDispatches(subscribed)) :
        subscribed \in UNION {[1 .. n -> BOOLEAN] : n \in 0 .. MaxFiring}}

TickReturned == started["host"] > Len(HostFunctions) /\ stacks["host"] = <<>>

\* C19: a handler that publishes from within its invocation never waits for
\* a lock its own task holds, and when appcontrol_run returns the whole tick
\* has been dispatched depth-first: time request, TimeSync handler, time
\* response, engine handler, and for each Play the MP3 handler, its response
\* and the console callback, each nested publish returning before the outer.
C19_TickIsDispatchedDepthFirst ==
    /\ \A t \in Tasks :
          (AtCall(t, "publish") \/ AtCall(t, "subscribe")) => table_lock # t
    /\ TickReturned => log["host"] \in TickDispatches

\* a tick returned whose sample fired one entry, with the console subscribed
\* to the MP3 response
C19_Witness ==
    /\ TickReturned
    /\ log["host"] = TickDispatch(PlayDispatch(TRUE))
    /\ delivered["host"].topic = "MSG_0100"

\* the list of a topic holds exactly the handlers subscribed so far
ListComplete(topic) ==
    /\ subscribers[topic].count = Len(registered[topic])
    /\ \A i \in 1 .. MaxSubscribers :
          subscribers[topic].slots[i] =
              (IF i <= Len(registered[topic]) THEN registered[topic][i] ELSE "null")

\* C20: the table lock is held only while a list is updated or copied, never
\* while a handler runs; a subscribe of one task interleaved with a publish
\* of another never lets a publish copy a partially updated list nor leaves
\* one behind, and a publish in flight invokes exactly the handlers of its
\* snapshot.
C20_LockOnlyAroundTheTable ==
    /\ \A t \in Tasks :
          table_lock = t =>
              \/ Running(t, "subscribe")
              \/ Running(t, "publish") /\ Top(t).phase = "locked"
    /\ \A f \in Dispatching :
          /\ f.snapshot = f.reg
          /\ f.invoked = SubSeq(f.snapshot, 1, f.next - 1)
    /\ table_lock = "none" => \A topic \in Topics : ListComplete(topic)

\* the console is half way through its subscribe to MSG_0001 while the
\* WiFi task's publish of MSG_0203 is calling the console's WiFi callback
C20_Witness ==
    /\ Running("console", "subscribe")
    /\ Top("console").topic = "MSG_0001"
    /\ Top("console").phase \in {"slot", "count"}
    /\ ~ListComplete("MSG_0001")
    /\ Running("wifi", "function")
    /\ Top("wifi").name = "prv_wifi_callback"
    /\ Len(stacks["wifi"]) = 3
    /\ stacks["wifi"][2].snapshot = <<"prv_wifi_callback">>

\* t is inside a subscribe call that has the lock and has written nothing yet
Subscribing(t) == Running(t, "subscribe") /\ Top(t).phase = "locked"

\* t is inside a publish call that has the lock and has not copied the list
Copying(t) == Running(t, "publish") /\ Top(t).phase = "locked"

FaultedPublish(t) == stacks[t][Len(stacks[t]) - 1]

\* C22: when the ASSERT of a handler fails, the publish that invoked the
\* handler still delivers to the subscribers behind it: no task stays in the
\* assert-failed routine with handlers of the snapshot left to invoke, and the
\* lists of the table are as the subscribe calls left them.
C22_FaultDoesNotAbortDelivery ==
    \A t \in Asserted :
        /\ FaultedPublish(t).next > Len(FaultedPublish(t).snapshot)
        /\ table_lock = "none" => \A topic \in Topics : ListComplete(topic)

\* the entries a Play of the evaluation in progress may belong to: those
\* configured now, and those configured when the sample was taken
Playable ==
    {configured[i] : i \in DOMAIN configured}
      \cup (IF InEngine("host", "check")
            THEN {engine_pc["host"].at_sample[i] : i \in DOMAIN engine_pc["host"].at_sample}
            ELSE {})

\* C23: with the requests of the console task interleaved with the
\* evaluation of the host loop, every Play carries the song index of an entry
\* that an Add or the load configured and no Remove or Clear had removed when
\* the sample was taken or since, and the sample shows that entry's hour and
\* minute; no Play mixes the active flag of a new entry with the fields of the
\* slot's previous occupant.
C23_PlaysOnlyConfiguredEntries ==
    \A k \in 1 .. Len(out) :
        out[k].msg_id = "MSG_0302" =>
            \E c \in Playable :
                /\ c.song_index = out[k].song_index
                /\ c.hour = current_time.hour
                /\ c.minute = current_time.min

\* C24: a valid sample whose minute differs from an active entry's
\* last_checked_min sets last_checked_min to that minute and leaves the entry
\* untriggered, whether or not it had fired and whatever its own minute is; a
\* sample with the same minute leaves last_checked_min as it is, and triggered
\* too unless the entry fires on that sample.
C24_DebounceResetsOnMinuteChange ==
    [][(req'.op \in {"run", "time"} /\ evals' = 1) =>
          \A i \in Slots :
              schedules[i].active =>
                  IF schedules[i].last_checked_min # current_time'.min
                  THEN /\ schedules'[i].last_checked_min = current_time'.min
                       /\ schedules[i].triggered => ~schedules'[i].triggered
                  ELSE /\ schedules'[i].last_checked_min = schedules[i].last_checked_min
                       /\ \/ schedules'[i].triggered = schedules[i].triggered
                          \/ /\ ~schedules[i].triggered /\ schedules'[i].triggered
                             /\ \E k \in 1 .. Len(out') :
                                   out'[k] = prv_play_song(schedules[i].song_index)]_vars

\* the entry of slot 0, for 07:30, had fired; the sample of 07:31 armed it
\* again and published no Play
C24_Witness ==
    /\ Sampled
    /\ rearmed = {0}
    /\ schedules[0].active /\ schedules[0].minute = 30
    /\ ~schedules[0].triggered
    /\ schedules[0].last_checked_min = 31
    /\ current_time.min = 31
    /\ "MSG_0302" \notin PublishedIds

\* the active slots that hold the given hour, minute and song index
Holding(s, cmd) ==
    {i \in Slots : /\ s[i].active
                   /\ s[i].hour = cmd.hour
                   /\ s[i].minute = cmd.minute
                   /\ s[i].song_index = cmd.song_index}

\* the Plays among the messages, in their order
PlaysIn(messages) == SelectSeq(messages, LAMBDA msg : msg.msg_id = "MSG_0302")

\* the active slots whose entry is due on a sample of the given time
Due(s, t) ==
    {i \in Slots : /\ s[i].active
                   /\ s[i].hour = t.hour /\ s[i].minute = t.min
                   /\ (s[i].last_checked_min # t.min \/ ~s[i].triggered)}

\* C25: an Add whose hour, minute and song index equal those of an active
\* entry succeeds while a slot is free and occupies another slot, the entry
\* that was there staying as it is; and a sample on which several entries are
\* due publishes one Play for each of them, equal entries included.
C25_DuplicatesAreKeptAndPlayed ==
    [][/\ (req'.op = "add" /\ Holding(schedules, req'.cmd) # {}
                           /\ FreeSlots(schedules) # {}) =>
             /\ out' = <<Success(LowestFree(schedules))>>
             /\ Holding(schedules', req'.cmd) =
                   Holding(schedules, req'.cmd) \cup {LowestFree(schedules)}
             /\ \A i \in Holding(schedules, req'.cmd) : schedules'[i] = schedules[i]
       /\ (req'.op \in {"run", "time"} /\ evals' = 1) =>
             /\ Len(PlaysIn(out')) = Cardinality(Due(schedules, current_time'))
             /\ \A i \in Due(schedules, current_time') :
                   /\ schedules'[i].triggered
                   /\ Cardinality({k \in 1 .. Len(out') :
                                      out'[k] = prv_play_song(schedules[i].song_index)})
                        = Cardinality({j \in Due(schedules, current_time') :
                                          schedules[j].song_index = schedules[i].song_index})]_vars

\* slots 0 and 1 hold the same entry, the second one added by a request; the
\* sample of 07:30 published a Play of song 5 for each
C25_Witness ==
    /\ Sampled
    /\ adds = 1
    /\ Holding(schedules, [hour |-> 7, minute |-> 30, song_index |-> 5]) = {0, 1}
    /\ schedules[0].triggered /\ schedules[1].triggered
    /\ PlaysIn(out) = <<prv_play_song(5), prv_play_song(5)>>

\* the same Add request with the weekday list "*"
AnyDay(cmd) == [cmd EXCEPT !.weekday_mask = 127]

\* the bit of the sample's day is set in the mask
OnDay(mask, day) == (mask \div (2 ^ day)) % 2 = 1

Returned(events, topic) ==
    Cardinality({k \in 1 .. Len(events) :
                    events[k] = Event("returned", "publish", topic, events[k].depth)})

\* the publish of a schedule request made by a command has just returned on t
RequestReturned(t) ==
    /\ log[t] # <<>>
    /\ log[t][Len(log[t])].e = "returned"
    /\ log[t][Len(log[t])].depth = 1
    /\ log[t][Len(log[t])].topic \in ScheduleRequests

\* C27: when the publish of a schedule request returns, exactly one response
\* has been published and dispatched inside it: one MSG_0405 and no MSG_0406
\* for Add, Remove, Clear and SetEnabled, one MSG_0406 and no MSG_0405 for
\* List.
C27_OneResponsePerRequest ==
    \A t \in Tasks :
        RequestReturned(t) =>
            LET request == log[t][Len(log[t])].topic
            IN  /\ Returned(log[t], "MSG_0405") = (IF request = "MSG_0402" THEN 0 ELSE 1)
                /\ Returned(log[t], "MSG_0406") = (IF request = "MSG_0402" THEN 1 ELSE 0)
                /\ delivered[t].topic = request
                /\ delivered[t].invoked = << "appcontrol" >>

\* the console's List request has returned, and inside it the console's
\* callback was called with the list response
C27_Witness ==
    /\ RequestReturned("console")
    /\ delivered["console"].topic = "MSG_0402"
    /\ log["console"] =
          << Event("call", "appcontrol", "MSG_0402", 1),
             Event("call", "prv_schedule_callback", "MSG_0406", 2),
             Event("exit", "prv_schedule_callback", "MSG_0406", 2),
             Event("returned", "publish", "MSG_0406", 2),
             Event("exit", "appcontrol", "MSG_0402", 1),
             Event("returned", "publish", "MSG_0402", 1) >>

\* the time requests among the messages
TimeRequestsIn(messages) == SelectSeq(messages, LAMBDA msg : msg.msg_id = "MSG_0100")

\* C28: while scheduling is enabled a call of appcontrol_run publishes
\* exactly one time request, before anything else; and the entries are
\* evaluated once when the time response the engine receives is valid, and
\* not at all when it is not.
C28_OneRequestPerTickOneEvaluationPerSample ==
    [][/\ (req'.op = "run" /\ scheduling_enabled) =>
             /\ TimeRequestsIn(out') = <<TimeRequest>>
             /\ out'[1] = TimeRequest
       /\ (req'.op \in {"run", "time"} /\ scheduling_enabled) =>
             /\ evals' = (IF time_valid' THEN 1 ELSE 0)
             /\ time_valid' => current_time' = clock']_vars

\* a tick with scheduling enabled published its request and, the response
\* being valid, one Play of the evaluation
C28_Witness ==
    /\ req.op = "run"
    /\ scheduling_enabled
    /\ time_valid
    /\ evals = 1
    /\ Len(out) = 2
    /\ out[1] = TimeRequest
    /\ out[2].msg_id = "MSG_0302"

\* how often the handler occurs in the list
Occurrences(list, handler) ==
    Cardinality({k \in 1 .. Len(list) : list[k] = handler})

\* C29: a handler subscribed twice to a topic is registered twice, and a
\* publish on the topic invokes it twice; the console's test command
\* subscribes its callback to MSG_0001 at most once however often it runs,
\* no subscribe call being rejected, and every test publish invokes the
\* callback exactly once.
C29_DuplicateSubscribeInvokesTwice ==
    /\ rejected = {}
    /\ Finished("host", Len(DupSetup)) =>
          /\ registered["MSG_0002"] = << "listener", "listener" >>
          /\ Snapshot(subscribers["MSG_0002"]) = << "listener", "listener" >>
    /\ Occurrences(registered["MSG_0001"], "prv_msg_broker_callback") <= 1
    /\ subscribers["MSG_0001"].count <= 1
    /\ \A t \in Tasks :
          /\ delivered[t].topic = "MSG_0002" =>
                delivered[t].invoked = << "listener", "listener" >>
          /\ delivered[t].topic = "MSG_0001" =>
                delivered[t].invoked = << "prv_msg_broker_callback" >>

\* the handler subscribed twice was invoked twice by the host's publish, and
\* the second run of the test command has returned, its publish having
\* invoked the callback once
C29_Witness ==
    /\ delivered["host"].topic = "MSG_0002"
    /\ delivered["host"].invoked = << "listener", "listener" >>
    /\ started["console"] = 3
    /\ stacks["console"] = <<>>
    /\ ~run_once
    /\ delivered["console"].topic = "MSG_0001"
    /\ delivered["console"].invoked = << "prv_msg_broker_callback" >>

\* the last action delivered a time response to the engine
ResponseDelivered == req'.op = "time" \/ (req'.op = "run" /\ scheduling_enabled)

\* C30: a time response that is not valid causes no evaluation: the entries,
\* the stored sample, the switch and the store stay as they are and no Play
\* is published; and a valid response that follows one that was not valid is
\* evaluated on the entries as they were before both, with the result
\* prv_check_schedules gives for them and the sample.
C30_InvalidSampleIsIgnored ==
    [][/\ (ResponseDelivered /\ ~time_valid') =>
             /\ evals' = 0
             /\ schedules' = schedules
             /\ current_time' = current_time
             /\ scheduling_enabled' = scheduling_enabled
             /\ preferences' = preferences
             /\ PlaysIn(out') = <<>>
       /\ (ResponseDelivered /\ ~time_valid /\ time_valid') =>
             LET checked == prv_check_schedules(schedules, current_time')
             IN  /\ evals' = 1
                 /\ schedules' = checked.schedules
                 /\ PlaysIn(out') = checked.plays]_vars

\* a response that was not valid has been delivered while the entry in slot
\* 0 was triggered in the minute last sampled; the entry is still triggered
C30_Witness ==
    /\ req.op \in {"run", "time"}
    /\ ~time_valid
    /\ evals = 0
    /\ out \in {<<>>, <<TimeRequest>>}
    /\ schedules[0].active
    /\ schedules[0].triggered
    /\ schedules[0].last_checked_min = clock.min
    /\ current_time = clock

\* the frames of the evaluations in progress on the host loop, innermost
\* first
RECURSIVE FramesOf(_)
FramesOf(frame) ==
    IF frame.op # "check" THEN <<>> ELSE <<frame>> \o FramesOf(frame.outer)

\* the evaluations that are inside the dispatch of the Play of slot i
DispatchingPlayOf(i) ==
    {k \in 1 .. Len(FramesOf(engine_pc["host"])) :
        /\ FramesOf(engine_pc["host"])[k].phase = "dispatch"
        /\ FramesOf(engine_pc["host"])[k].i = i}

\* C31: an entry emits no second Play while its Play is being dispatched:
\* whatever time responses the dispatch delivers to the engine, at most one
\* evaluation in progress has published the Play of a slot and not yet
\* returned from it.
C31_NoSecondPlayDuringDispatch ==
    \A i \in Slots : Cardinality(DispatchingPlayOf(i)) <= 1

\* C32: an entry that has fired in a calendar minute does not fire again in
\* that calendar minute, also when the device restarts and loads its schedules
\* within the minute: no slot's entry has more than one Play in the calendar
\* minute the clock shows.
C32_NoRefireAfterRestart ==
    \A i \in Slots : Plays(minPlays, i) <= 1

\* the entries the array holds, whatever their slots
EntrySet(s) == {Config(s[i]) : i \in ActiveSlots(s)}

\* C33: after a restart inside the save of an Add, a Remove or a Clear the
\* load restores the entries that were active before the request or those
\* that were active after it.
C33_SaveIsCrashConsistent ==
    InEngine("console", "recovered") =>
        \/ EntrySet(schedules) = EntrySet(engine_pc["console"].before)
        \/ EntrySet(schedules) = EntrySet(engine_pc["console"].after)

\* the slot is free and still holds the hour, the minute and the debounce
\* fields of an entry that fired in the minute of the request and was removed
FiredAndFreed(s, i, cmd) ==
    /\ ~s[i].active
    /\ s[i].triggered
    /\ s[i].hour = cmd.hour /\ s[i].minute = cmd.minute
    /\ s[i].last_checked_min = cmd.minute

\* C34: an Add into a slot that a Remove freed after its entry had fired
\* leaves the slot Armed, with nothing of the previous occupant's triggered
\* and last_checked_min; and the next valid sample that shows the hour and
\* minute of an entry that is still as its Add left it publishes that
\* entry's Play and marks it triggered.
C34_ReusedSlotStartsArmed ==
    [][/\ (req'.op = "add" /\ FreeSlots(schedules) # {}) =>
             LET free_slot == LowestFree(schedules)
             IN  /\ schedules'[free_slot] =
                       ArmedEntry(req'.cmd.hour, req'.cmd.minute, req'.cmd.song_index)
                 /\ FiredAndFreed(schedules, free_slot, req'.cmd) =>
                       /\ ~schedules'[free_slot].triggered
                       /\ schedules'[free_slot].last_checked_min = UNSET_MIN
       /\ (req'.op \in {"run", "time"} /\ evals' = 1) =>
             \A i \in Slots :
                (/\ schedules[i] = ArmedEntry(schedules[i].hour, schedules[i].minute,
                                              schedules[i].song_index)
                 /\ schedules[i].hour = current_time'.hour
                 /\ schedules[i].minute = current_time'.min) =>
                    /\ schedules'[i].triggered
                    /\ schedules'[i].last_checked_min = current_time'.min
                    /\ \E k \in 1 .. Len(out') :
                          out'[k] = prv_play_song(schedules[i].song_index)]_vars

\* slot 0, whose first entry played song 1, holds the entry that an Add put
\* there after a Remove; the other entries had fired in this calendar minute
\* before, and this sample of the minute published the Play of the new entry
\* alone
C34_Witness ==
    /\ Sampled
    /\ adds = 1
    /\ schedules[0].active /\ schedules[0].song_index = 5
    /\ schedules[0].triggered
    /\ Plays(minPlays, 0) = 1
    /\ Plays(minPlays, 1) = 1
    /\ PlaysIn(out) = <<prv_play_song(5)>>

\* the slots of the set in ascending order
RECURSIVE Ascending(_)
Ascending(slots) ==
    IF slots = {} THEN <<>>
    ELSE LET lowest == CHOOSE i \in slots : \A j \in slots : i <= j
         IN  <<lowest>> \o Ascending(slots \ {lowest})

\* C35: one evaluation publishes one Play for each active entry that matches
\* the sample and is Armed, in ascending order of the slots, each with the
\* song index of its entry, and no other Play.
C35_OnePlayPerDueEntryInSlotOrder ==
    [][(req'.op \in {"run", "time"} /\ evals' = 1) =>
          LET due == Ascending(Due(schedules, current_time'))
          IN  PlaysIn(out') =
                 [k \in 1 .. Len(due) |-> prv_play_song(schedules[due[k]].song_index)]]_vars

\* slot 0 holds an entry for another minute and slot 19 is free: the sample
\* published the Plays of the slots 1 to 18, songs 2 to 19, in that order
C35_Witness ==
    /\ Sampled
    /\ schedules[0].active /\ schedules[0].hour = 8
    /\ ~schedules[19].active
    /\ PlaysIn(out) = [k \in 1 .. 18 |-> prv_play_song(k + 1)]

\* C36: the evaluation of a time sample changes nothing but triggered and
\* last_checked_min of active entries: every slot keeps its active flag, hour,
\* minute and song index, an inactive slot keeps all its fields, and the store
\* is not written.
C36_EvaluationWritesDebounceOnly ==
    [][(req'.op \in {"run", "time"} /\ evals' = 1) =>
          /\ \A i \in Slots :
                /\ schedules'[i].active = schedules[i].active
                /\ Config(schedules'[i]) = Config(schedules[i])
                /\ ~schedules[i].active => schedules'[i] = schedules[i]
          /\ preferences' = preferences
          /\ nvs_writes' = NoWrites]_vars

\* an evaluation fired the entry in slot 1 and passed slot 0, which a Remove
\* had freed after its entry had fired; the slot kept its fields
C36_Witness ==
    /\ Sampled
    /\ ~schedules[0].active
    /\ schedules[0].triggered
    /\ Config(schedules[0]) = [hour |-> 7, minute |-> 30, song_index |-> 5]
    /\ schedules[1].active /\ schedules[1].triggered
    /\ schedules[1].last_checked_min = current_time.min
    /\ PlaysIn(out) = <<prv_play_song(schedules[1].song_index)>>

\* C37: SetEnabled and List change no slot and write nothing to the store,
\* and SetEnabled changes the scheduling flag alone; the entries that exist
\* while scheduling is disabled fire again in their next matching minute once
\* it is enabled: every sample of an enabled tick that shows an active
\* entry's hour and minute finds one Play of that entry in its calendar
\* minute.
C37_ToggleKeepsEntriesFiring ==
    /\ [][req'.op \in {"enable", "list"} =>
             /\ schedules' = schedules
             /\ preferences' = preferences
             /\ nvs_writes' = NoWrites
             /\ <<time_valid', current_time'>> = <<time_valid, current_time>>
             /\ req'.op = "list" => scheduling_enabled' = scheduling_enabled]_vars
    /\ []((req.op = "run" /\ evals = 1) =>
             \A i \in Slots : EntryMatches(i, clock) => Plays(minPlays, i) >= 1)

\* C38: the scheduling flag is not persisted: SetEnabled writes no key of
\* the store, the store holds the count and the records only, and after a
\* restart scheduling is enabled, also when it was disabled before.
C38_RestartEnablesScheduling ==
    /\ [][/\ req'.op = "enable" => (preferences' = preferences /\ nvs_writes' = NoWrites)
          /\ req'.op = "restart" => (scheduling_enabled' /\ preferences' = preferences)]_vars
    /\ [](DOMAIN preferences = {"cnt", "recs"})
    /\ [](req.op = "restart" => scheduling_enabled)

\* the device has restarted with the entry of slot 0 loaded from the store
\* and scheduling enabled
C38_Witness ==
    /\ req.op = "restart"
    /\ scheduling_enabled
    /\ schedules[0] = ArmedEntry(7, 30, 5)
    /\ ~time_valid

\* the slots that hold the fields of the complete record of ordinal k
HoldersOf(s, store, k) ==
    {i \in ActiveSlots(s) : Config(s[i]) = Config(GetBytes(store, k))}

\* C39: the load is bounded for any store: it reads at most 20 records and
\* activates at most 20 slots, and every complete record it reads is
\* restored to a slot of its own unless no slot is free, so that after a load
\* into the empty array there are as many active slots as complete records
\* read and each of these records is held by a slot.
C39_LoadIsBoundedForAnyStore ==
    req.op \in {"init", "restart"} =>
        /\ Cardinality(LoadedOrdinals(preferences)) <= MAX_SCHEDULES
        /\ Cardinality(ActiveSlots(schedules)) <= MAX_SCHEDULES
        /\ Cardinality(ActiveSlots(schedules)) =
              Cardinality(LoadedOrdinals(preferences))
        /\ \A k \in LoadedOrdinals(preferences) :
              HoldersOf(schedules, preferences, k) # {}

\* the publish of a time request made by the function t runs has just
\* returned
TimeRequestReturned(t) ==
    /\ log[t] # <<>>
    /\ log[t][Len(log[t])] = Event("returned", "publish", "MSG_0100", 1)

\* C40: when the publish of a time request returns, the time adapter's
\* handler has been called once for it and exactly one time response has been
\* published and dispatched inside it; and a response built without a valid
\* time carries time_valid = false, timestamp 0 and a zeroed broken-down
\* time, whatever the clock showed.
C40_OneTimeResponsePerRequest ==
    /\ \A t \in Tasks :
          TimeRequestReturned(t) =>
             /\ Returned(log[t], "MSG_0101") = 1
             /\ delivered[t].topic = "MSG_0100"
             /\ delivered[t].invoked = << "timesync" >>
             /\ Answered(t)
             /\ Len(out) = 1
             /\ out[1].msg_id = "MSG_0101"
             /\ out[1].time_valid = req.local.ok
    /\ (req.op = "MSG_0100" /\ ~req.local.ok) =>
          /\ ~out[1].time_valid
          /\ out[1].timestamp = 0
          /\ out[1].timeinfo = ZeroTime

\* the tick's time request has returned; the adapter found a clock that
\* shows a date of 2008 and no valid local time, and its response was
\* dispatched to the engine inside the request
C40_Witness ==
    /\ TimeRequestReturned("host")
    /\ req.now = 1200000000
    /\ ~req.local.ok
    /\ req.local.timeinfo # ZeroTime
    /\ out = << [msg_id |-> "MSG_0101", timestamp |-> 0, time_valid |-> FALSE,
                 timeinfo |-> ZeroTime] >>
    /\ SubSeq(log["host"], 1, 2) =
          << Event("call", "timesync", "MSG_0100", 1),
             Event("call", "appcontrol", "MSG_0101", 2) >>

====
